---------------------------- MODULE Spec2Model ----------------------------
(***************************************************************************)
(* A model of the HandCraft layout and rendering core: the pagination      *)
(* engine (paginateContent, wordWrap, estimateCharsPerLine), the diagram   *)
(* marker parser, the variation engine and the glyph extraction            *)
(* threshold.                                                              *)
(*                                                                         *)
(* Texts are sequences of one-character strings.  Vertical sizes are kept  *)
(* in hundredths of a pixel, so that fontSize * lineHeight (lineHeight     *)
(* has at most two decimals in the program) is an exact integer.           *)
(***************************************************************************)
EXTENDS Integers, Sequences, FiniteSets, TLC

VARIABLES
    \* paginateContent: its arguments
    blocks, style, pageType, headerInfo,
    \* paginateContent: its locals
    headerLines, allLines, pages, pageLines, currentY, lineIndex, pc,
    \* wordWrap: its arguments and locals
    wwText, wwMax, wwWords, wwLines, wwCurrentLine, wwRemaining, wwResult, wwPc,
    \* parseDiagramMarker: the marker's fields, its text, and the result
    mkType, mkTitle, mkDescription, mkText, mkResult, mkPc,
    \* two variation engines: their construction arguments, the closure
    \* cells of each, the calls made on each and the values returned
    seed, fatigueMode, pageProgress, randState, charCount, calls, returned,
    enginePc,
    \* fatigueMult: a character count, two progress values, the results
    fmCharCount, fmProgressA, fmProgressB, fmMult, fmPc,
    \* the handwriting sampler and one run of processHandwritingSheet
    calibrationFile, thresholdOffset, gray, threshold, inkMask, samplerPc,
    \* parseText: its argument, the split lines, the loop index and the locals
    rawText, ptLines, ptIndex, ptBlocks, currentParagraph, ptPc,
    \* renderCycle: its arguments, its steps, the loop index, the boxes and arrows drawn
    ccDescription, ccWidth, ccHeight, ccSteps, ccIndex, ccBoxes, ccArrows, ccPc,
    \* generateTemplateDataURL: its loop and the cells drawn; the uploaded sheet, its fallback grid and the cells examined
    tpRow, tpCol, tpY, tpCells, sheetWidth, sheetHeight, gridCells, exRow, exCol, charIndex, examined, tpPc,
    \* saveGlyphMap and loadGlyphMap: the persisted record, the images being decoded, the map being built and how the call settled
    gsStored, gsPrevious, gsSaving, gsEntries, gsDecoding, lgGlyphMap, lgLoaded, gsResult, gsPc,
    \* HandwritingSampler.confirmCalibration
    upRecord, upGlyphMap, upBeforeRecord, upBeforeMap, gMap, error, isProcessing, upOutcome, upPc,
    \* handwritingRenderer: renderPage, renderAllPages
    rpPages, rpStyle, rpPageType, rpGlyphMap, rpQueue, canvases, mathRandomState, tintCanvas, rpPc,
    \* renderFlowchart
    fcDescription, fcX, fcY, fcWidth, fcSteps, fcIndex, fcBoxes, fcArrows, fcPc,
    \* renderTree
    trDescription, trWidth, trNodes, trLevels, trIdx, trLevelSize, trLvl, trI, trCircles, trEdges, trPc,
    \* useRenderer.handleGenerate
    isGenerating, genStarted, genTimers, genSettled, shownCanvases,
    \* useAI.handleAiGenerate
    aiMode, aiHasKey, aiIsLocalhost, isAiGenerating, aiInFlight, aiStarted, aiContent

pagVars == <<blocks, style, pageType, headerInfo, headerLines, allLines,
             pages, pageLines, currentY, lineIndex, pc>>
wrapVars == <<wwText, wwMax, wwWords, wwLines, wwCurrentLine, wwRemaining,
              wwResult, wwPc>>
markerVars == <<mkType, mkTitle, mkDescription, mkText, mkResult, mkPc>>
engineVars == <<seed, fatigueMode, pageProgress, randState, charCount, calls,
                returned, enginePc>>
fatigueVars == <<fmCharCount, fmProgressA, fmProgressB, fmMult, fmPc>>
sheetVars == <<calibrationFile, thresholdOffset, gray, threshold, inkMask,
               samplerPc>>
parseVars == <<rawText, ptLines, ptIndex, ptBlocks, currentParagraph, ptPc>>
cycleVars == <<ccDescription, ccWidth, ccHeight, ccSteps, ccIndex, ccBoxes, ccArrows, ccPc>>
templateVars == <<tpRow, tpCol, tpY, tpCells, sheetWidth, sheetHeight, gridCells, exRow, exCol, charIndex, examined, tpPc>>
glyphVars == <<gsStored, gsPrevious, gsSaving, gsEntries, gsDecoding, lgGlyphMap, lgLoaded, gsResult, gsPc>>
uploadVars == <<upRecord, upGlyphMap, upBeforeRecord, upBeforeMap, gMap, error, isProcessing, upOutcome, upPc>>
renderVars == <<rpPages, rpStyle, rpPageType, rpGlyphMap, rpQueue, canvases, mathRandomState, tintCanvas, rpPc>>
flowVars == <<fcDescription, fcX, fcY, fcWidth, fcSteps, fcIndex, fcBoxes, fcArrows, fcPc>>
treeVars == <<trDescription, trWidth, trNodes, trLevels, trIdx, trLevelSize, trLvl, trI, trCircles, trEdges, trPc>>
genVars == <<isGenerating, genStarted, genTimers, genSettled, shownCanvases>>
aiVars == <<aiMode, aiHasKey, aiIsLocalhost, isAiGenerating, aiInFlight, aiStarted, aiContent>>
vars == <<pagVars, wrapVars, markerVars, engineVars, fatigueVars, sheetVars, parseVars, cycleVars, templateVars, glyphVars, uploadVars, renderVars, flowVars, treeVars, genVars, aiVars>>

\* What the steps of one component leave alone.
notPagVars == <<wrapVars, markerVars, engineVars, fatigueVars, sheetVars, parseVars, cycleVars, templateVars, glyphVars, uploadVars, renderVars, flowVars, treeVars, genVars, aiVars>>
notWrapVars == <<pagVars, markerVars, engineVars, fatigueVars, sheetVars, parseVars, cycleVars, templateVars, glyphVars, uploadVars, renderVars, flowVars, treeVars, genVars, aiVars>>
notMarkerVars == <<pagVars, wrapVars, engineVars, fatigueVars, sheetVars, parseVars, cycleVars, templateVars, glyphVars, uploadVars, renderVars, flowVars, treeVars, genVars, aiVars>>
notEngineVars == <<pagVars, wrapVars, markerVars, fatigueVars, sheetVars, parseVars, cycleVars, templateVars, glyphVars, uploadVars, renderVars, flowVars, treeVars, genVars, aiVars>>
notFatigueVars == <<pagVars, wrapVars, markerVars, engineVars, sheetVars, parseVars, cycleVars, templateVars, glyphVars, uploadVars, renderVars, flowVars, treeVars, genVars, aiVars>>
notSheetVars == <<pagVars, wrapVars, markerVars, engineVars, fatigueVars, parseVars, cycleVars, templateVars, glyphVars, uploadVars, renderVars, flowVars, treeVars, genVars, aiVars>>
notParseVars == <<pagVars, wrapVars, markerVars, engineVars, fatigueVars, sheetVars, cycleVars, templateVars, glyphVars, uploadVars, renderVars, flowVars, treeVars, genVars, aiVars>>
notCycleVars == <<pagVars, wrapVars, markerVars, engineVars, fatigueVars, sheetVars, parseVars, templateVars, glyphVars, uploadVars, renderVars, flowVars, treeVars, genVars, aiVars>>
notTemplateVars == <<pagVars, wrapVars, markerVars, engineVars, fatigueVars, sheetVars, parseVars, cycleVars, glyphVars, uploadVars, renderVars, flowVars, treeVars, genVars, aiVars>>
notGlyphVars == <<pagVars, wrapVars, markerVars, engineVars, fatigueVars, sheetVars, parseVars, cycleVars, templateVars, uploadVars, renderVars, flowVars, treeVars, genVars, aiVars>>
notUploadVars == <<pagVars, wrapVars, markerVars, engineVars, fatigueVars, sheetVars, parseVars, cycleVars, templateVars, glyphVars, renderVars, flowVars, treeVars, genVars, aiVars>>
notRenderVars == <<pagVars, wrapVars, markerVars, engineVars, fatigueVars, sheetVars, parseVars, cycleVars, templateVars, glyphVars, uploadVars, flowVars, treeVars, genVars, aiVars>>
notFlowVars == <<pagVars, wrapVars, markerVars, engineVars, fatigueVars, sheetVars, parseVars, cycleVars, templateVars, glyphVars, uploadVars, renderVars, treeVars, genVars, aiVars>>
notTreeVars == <<pagVars, wrapVars, markerVars, engineVars, fatigueVars, sheetVars, parseVars, cycleVars, templateVars, glyphVars, uploadVars, renderVars, flowVars, genVars, aiVars>>
notGenVars == <<pagVars, wrapVars, markerVars, engineVars, fatigueVars, sheetVars, parseVars, cycleVars, templateVars, glyphVars, uploadVars, renderVars, flowVars, treeVars, aiVars>>
notAiVars == <<pagVars, wrapVars, markerVars, engineVars, fatigueVars, sheetVars, parseVars, cycleVars, templateVars, glyphVars, uploadVars, renderVars, flowVars, treeVars, genVars>>

---------------------------------------------------------------------------
(* Generic helpers *)

Min(a, b) == IF a < b THEN a ELSE b
Max(a, b) == IF a > b THEN a ELSE b

\* All sequences over S of length at most n.
SeqsUpTo(S, n) == UNION {[1..k -> S] : k \in 0..n}

\* A pixel count in the model's unit (hundredths of a pixel).
Px(n) == n * 100

\* White space as the regular expression class \s and String.trim see it.
IsSpace(ch) == ch \in {" ", "NL"}

\* String.prototype.substring(from) and substring(0, to), 0-based, with
\* negative arguments clamped to 0 as JavaScript does.
substringFrom(s, from) == SubSeq(s, Max(from, 0) + 1, Len(s))
substringTo(s, to) == SubSeq(s, 1, Min(Max(to, 0), Len(s)))

---------------------------------------------------------------------------
(* Page geometry *)

A4_WIDTH_PX == 2480
A4_HEIGHT_PX == 3508
TOP_MARGIN == 140
BOTTOM_MARGIN == 100

usableHeight == Px(A4_HEIGHT_PX - TOP_MARGIN - BOTTOM_MARGIN)

---------------------------------------------------------------------------
(* wordWrap *)

\* text.split(/\s+/): the pieces between maximal runs of white space; a text
\* that starts or ends with white space gives an empty first or last piece.
RECURSIVE splitScan(_, _, _, _)
splitScan(text, i, piece, inRun) ==
    IF i > Len(text) THEN <<piece>>
    ELSE IF IsSpace(text[i])
         THEN IF inRun THEN splitScan(text, i + 1, piece, TRUE)
              ELSE <<piece>> \o splitScan(text, i + 1, <<>>, TRUE)
         ELSE splitScan(text, i + 1, Append(piece, text[i]), FALSE)

splitWords(text) == splitScan(text, 1, <<>>, FALSE)

\* The test of the loop body: the word goes on the current line.
fitsOnLine(currentLine, word, maxCharsPerLine) ==
    Len(currentLine) + Len(word) + 1 <= maxCharsPerLine

\* The word joined to the line without and with the separating space.
appendWordNoSpace(currentLine, word) == currentLine \o word
appendWord(currentLine, word) ==
    currentLine \o (IF currentLine # <<>> THEN <<" ">> ELSE <<>>) \o word

\* One turn of the hard-split loop: the piece pushed, and what remains.
splitPiece(remaining, maxCharsPerLine) ==
    Append(substringTo(remaining, maxCharsPerLine - 1), "-")

splitRest(remaining, maxCharsPerLine) ==
    substringFrom(remaining, maxCharsPerLine - 1)

\* The hard-split loop run to its end (it ends only when each turn shortens
\* what remains, that is for maxCharsPerLine >= 2).
RECURSIVE hardSplit(_, _, _)
hardSplit(lines, remaining, maxCharsPerLine) ==
    IF Len(remaining) > maxCharsPerLine
    THEN hardSplit(Append(lines, splitPiece(remaining, maxCharsPerLine)),
                   splitRest(remaining, maxCharsPerLine), maxCharsPerLine)
    ELSE [lines |-> lines, currentLine |-> remaining]

\* The body of the for loop for one word.
wrapWord(st, word, maxCharsPerLine) ==
    IF fitsOnLine(st.currentLine, word, maxCharsPerLine)
    THEN [lines |-> st.lines, currentLine |-> appendWord(st.currentLine, word)]
    ELSE LET pushed == IF st.currentLine # <<>>
                       THEN Append(st.lines, st.currentLine) ELSE st.lines
         IN  IF Len(word) > maxCharsPerLine
             THEN hardSplit(pushed, word, maxCharsPerLine)
             ELSE [lines |-> pushed, currentLine |-> word]

RECURSIVE wrapWords(_, _, _)
wrapWords(st, words, maxCharsPerLine) ==
    IF words = <<>> THEN st
    ELSE wrapWords(wrapWord(st, Head(words), maxCharsPerLine), Tail(words),
                   maxCharsPerLine)

\* What wordWrap returns from the lines and the current line it ends with.
wrapResult(lines, currentLine) ==
    LET all == IF currentLine # <<>> THEN Append(lines, currentLine) ELSE lines
    IN  IF Len(all) > 0 THEN all ELSE << <<>> >>

wordWrap(text, maxCharsPerLine) ==
    IF text = <<>> THEN << <<>> >>
    ELSE LET st == wrapWords([lines |-> <<>>, currentLine |-> <<>>],
                             splitWords(text), maxCharsPerLine)
         IN  wrapResult(st.lines, st.currentLine)

---------------------------------------------------------------------------
(* estimateCharsPerLine *)

\* pageType.marginLeft and marginRight are 0 where the page type has none.
estimateCharsPerLine(fontSize, pt) ==
    LET leftMargin == (IF pt.marginLeft # 0 THEN pt.marginLeft ELSE 120) + 30
        rightMargin == IF pt.marginRight # 0 THEN pt.marginRight + 20 ELSE 100
        availableWidth == A4_WIDTH_PX - leftMargin - rightMargin
    IN  \* floor(availableWidth / (fontSize * 0.48))
        (availableWidth * 100) \div (fontSize * 48)

\* Math.floor(charsPerLine * 0.82), the budget of a heading line.
headingChars(charsPerLine) == (charsPerLine * 82) \div 100

---------------------------------------------------------------------------
(* paginateContent: header lines and the flat line stream *)

\* The diagram field of a line or block that is no diagram.
NoDiagram == [type |-> <<>>, title |-> <<>>, description |-> <<>>]

\* A laid-out line.  level is 0 and heightPx is 0 where the program's object
\* has no such field.
Line(type, text, level, diagram, heightPx) ==
    [type |-> type, text |-> text, level |-> level, diagram |-> diagram,
     heightPx |-> heightPx]

spacerLine == Line("spacer", <<>>, 0, NoDiagram, 0)

\* details.join('     ')
joinDetails(details) ==
    IF Len(details) = 0 THEN <<>>
    ELSE IF Len(details) = 1 THEN details[1]
    ELSE details[1] \o <<" ", " ", " ", " ", " ">> \o details[2]

\* headerInfo is <<>> for null and a one-element sequence holding the object
\* otherwise.
NoHeader == <<>>

\* The header lines; an empty field is falsy and adds nothing.
buildHeaderLines(hi) ==
    IF hi = NoHeader THEN <<>>
    ELSE
    LET h == hi[1]
        title == IF h.title # <<>>
                 THEN <<Line("header-title", h.title, 0, NoDiagram, 0)>> ELSE <<>>
        details == (IF h.name # <<>>
                    THEN << <<"N", "a", "m", "e", ":", " ">> \o h.name >>
                    ELSE <<>>)
                \o (IF h.rollNumber # <<>>
                    THEN << <<"R", "o", "l", "l", " ", "N", "o", ":", " ">>
                            \o h.rollNumber >>
                    ELSE <<>>)
        line1 == IF Len(details) > 0
                 THEN <<Line("header-detail", joinDetails(details), 0, NoDiagram, 0)>>
                 ELSE <<>>
        details2 == (IF h.subject # <<>>
                     THEN << <<"S", "u", "b", "j", "e", "c", "t", ":", " ">>
                             \o h.subject >>
                     ELSE <<>>)
                 \o (IF h.date # <<>>
                     THEN << <<"D", "a", "t", "e", ":", " ">> \o h.date >>
                     ELSE <<>>)
        line2 == IF Len(details2) > 0
                 THEN <<Line("header-detail", joinDetails(details2), 0, NoDiagram, 0)>>
                 ELSE <<>>
        lines == title \o line1 \o line2
    IN  IF Len(lines) > 0 THEN Append(lines, spacerLine) ELSE lines

\* The lines of wrapped text, each of the given type and level.
textLines(wrapped, type, level) ==
    [i \in 1..Len(wrapped) |-> Line(type, wrapped[i], level, NoDiagram, 0)]

\* The lines one block adds to allLines (soFar: allLines before the block).
blockLines(block, soFar, charsPerLine) ==
    IF block.type = "diagram"
    THEN <<spacerLine,
           Line("diagram", <<>>, 0, block.diagram, block.height),
           spacerLine>>
    ELSE IF block.type = "heading"
    THEN (IF Len(soFar) > 0 THEN <<spacerLine>> ELSE <<>>)
         \o textLines(wordWrap(block.text, headingChars(charsPerLine)),
                      "heading", block.level)
         \o <<spacerLine>>
    ELSE textLines(wordWrap(block.text, charsPerLine), "paragraph", 0)
         \o <<spacerLine>>

RECURSIVE flattenBlocks(_, _, _)
flattenBlocks(bs, soFar, charsPerLine) ==
    IF bs = <<>> THEN soFar
    ELSE flattenBlocks(Tail(bs), soFar \o blockLines(Head(bs), soFar, charsPerLine),
                       charsPerLine)

lineSpacing(st) == st.fontSize * st.lineHeight

---------------------------------------------------------------------------
(* paginateContent: distributing the lines over pages *)

\* line.heightPx || 320
diagramSpace(line) == IF line.heightPx # 0 THEN line.heightPx ELSE Px(320)

\* The tests of the inner loop: the line at lineIndex is placed.
diagramPlaced(y, line, nOnPage) ==
    ~ (y + diagramSpace(line) > usableHeight /\ nOnPage > 0)

\* Mutant: the test forgets the height of the line it is about to place.
textPlacedLate(y, spacing) == ~ (y > usableHeight)

textPlaced(y, spacing) == ~ (y + spacing > usableHeight)

linePlaced(y, line, nOnPage, spacing) ==
    IF line.type = "diagram" THEN diagramPlaced(y, line, nOnPage)
    ELSE textPlaced(y, spacing)

lineAdvance(line, spacing) ==
    IF line.type = "diagram" THEN diagramSpace(line) ELSE spacing

\* Mutant: the header is put on every page.
headerOnEveryPage(isFirstPage, hl) == hl

\* The lines a page starts with.
pageStartLines(isFirstPage, hl) ==
    IF isFirstPage /\ Len(hl) > 0 THEN hl ELSE <<>>

\* Mutant: placing a line skips the line after it.
skipLineIndex(i) == i + 2

\* lineIndex after a line has been placed.
nextLineIndex(i) == i + 1

\* The loop of an input whose lines never fit runs for ever; the model stops
\* it once it has made more pages than any run that ends can make.
TooManyPages == Len(pages) > Len(allLines) + 1

\* The part of paginateContent before the page loop.
Flatten ==
    /\ pc = "start"
    /\ headerLines' = buildHeaderLines(headerInfo)
    /\ allLines' = flattenBlocks(blocks, <<>>,
                                 estimateCharsPerLine(style.fontSize, pageType))
    /\ pc' = "page"
    /\ UNCHANGED <<blocks, style, pageType, headerInfo, pages, pageLines,
                   currentY, lineIndex, notPagVars>>

StartPage ==
    /\ pc = "page"
    /\ lineIndex < Len(allLines)
    /\ ~ TooManyPages
    /\ LET isFirstPage == Len(pages) = 0
           start == pageStartLines(isFirstPage, headerLines)
       IN  /\ pageLines' = [lines |-> start, isFirstPage |-> isFirstPage]
           /\ currentY' = Len(start) * lineSpacing(style)
    /\ pc' = "line"
    /\ UNCHANGED <<blocks, style, pageType, headerInfo, headerLines, allLines,
                   pages, lineIndex, notPagVars>>

PlaceLine ==
    /\ pc = "line"
    /\ lineIndex < Len(allLines)
    /\ LET line == allLines[lineIndex + 1]
       IN  /\ linePlaced(currentY, line, Len(pageLines.lines), lineSpacing(style))
           /\ pageLines' = [pageLines EXCEPT !.lines = Append(@, line)]
           /\ currentY' = currentY + lineAdvance(line, lineSpacing(style))
           /\ lineIndex' = nextLineIndex(lineIndex)
    /\ UNCHANGED <<blocks, style, pageType, headerInfo, headerLines, allLines,
                   pages, pc, notPagVars>>

ClosePage ==
    /\ pc = "line"
    /\ \/ lineIndex >= Len(allLines)
       \/ /\ lineIndex < Len(allLines)
          /\ ~ linePlaced(currentY, allLines[lineIndex + 1],
                          Len(pageLines.lines), lineSpacing(style))
    /\ pages' = Append(pages, pageLines)
    /\ pc' = "page"
    /\ UNCHANGED <<blocks, style, pageType, headerInfo, headerLines, allLines,
                   pageLines, currentY, lineIndex, notPagVars>>

Return ==
    /\ pc = "page"
    /\ lineIndex >= Len(allLines)
    /\ pages' = IF Len(pages) = 0
                THEN <<[lines |-> headerLines, isFirstPage |-> TRUE]>>
                ELSE pages
    /\ pc' = "done"
    /\ UNCHANGED <<blocks, style, pageType, headerInfo, headerLines, allLines,
                   pageLines, currentY, lineIndex, notPagVars>>

---------------------------------------------------------------------------
(* The inputs of paginateContent *)

MaxBlocks == 2

\* The keys of the table heights of getDiagramHeight.
flowchart == <<"f", "l", "o", "w", "c", "h", "a", "r", "t">>
tree == <<"t", "r", "e", "e">>
table == <<"t", "a", "b", "l", "e">>
labeled == <<"l", "a", "b", "e", "l", "e", "d">>
cycle == <<"c", "y", "c", "l", "e">>

\* The lower-case property names that heights, like every object, inherits
\* from Object.prototype: heights[name] is then a function or an object.
InheritedKeys ==
    { <<"c", "o", "n", "s", "t", "r", "u", "c", "t", "o", "r">>,
      <<"_", "_", "p", "r", "o", "t", "o", "_", "_">> }

\* A value returned by getDiagramHeight: a number, or the inherited
\* non-numeric value.
NumberValue(n) == [kind |-> "number", value |-> n]
InheritedValue == [kind |-> "object", value |-> 0]

\* getDiagramHeight: heights[diagramType] || 320
getDiagramHeight(diagramType) ==
    CASE diagramType = flowchart -> NumberValue(350)
      [] diagramType = tree -> NumberValue(340)
      [] diagramType = table -> NumberValue(300)
      [] diagramType = labeled -> NumberValue(380)
      [] diagramType = cycle -> NumberValue(360)
      [] diagramType \in InheritedKeys -> InheritedValue
      [] OTHER -> NumberValue(320)

Block(type, text, level, diagram, height) ==
    [type |-> type, text |-> text, level |-> level, diagram |-> diagram,
     height |-> height]

Paragraph(text) == Block("paragraph", text, 0, NoDiagram, 0)
Heading(level, text) == Block("heading", text, level, NoDiagram, 0)
\* A diagram block as parseText makes it.
Diagram(type) ==
    Block("diagram", <<>>, 0,
          [type |-> type, title |-> <<"t">>, description |-> <<"d">>],
          Px(getDiagramHeight(type).value))
\* A diagram block of a caller that sets the height itself.
DiagramOfHeight(type, height) ==
    [Diagram(type) EXCEPT !.height = height]

\* Block texts: two words, and one word longer than a line of the large styles.
TwoWords == <<"a", "b", " ", "c", "d">>
LongWord == <<"a", "b", "c", "d", "e", "f">>

\* A diagram taller than a page, and one without a height.
InputBlocks ==
    {Paragraph(TwoWords), Paragraph(LongWord), Heading(1, TwoWords),
     Heading(2, <<>>), Diagram(flowchart),
     DiagramOfHeight(cycle, Px(4000)), DiagramOfHeight(tree, 0)}

\* The default style, and styles so large that a page holds three lines, one
\* line, and none (lineHeight in hundredths).
Styles ==
    {[fontSize |-> 52, lineHeight |-> 155],
     [fontSize |-> 1000, lineHeight |-> 100],
     [fontSize |-> 500, lineHeight |-> 400],
     [fontSize |-> 1000, lineHeight |-> 350]}

\* PAGE_TYPES: single margin, double margin, plain.
PAGE_TYPES ==
    {[id |-> "single-margin", marginLeft |-> 120, marginRight |-> 0],
     [id |-> "double-margin", marginLeft |-> 120, marginRight |-> 90],
     [id |-> "plain", marginLeft |-> 80, marginRight |-> 0]}

FieldValues == {<<>>, <<"x">>}

HeaderInfos ==
    {NoHeader} \cup
    { <<[title |-> t, name |-> n, rollNumber |-> r, subject |-> s, date |-> d]>> :
        t \in FieldValues, n \in FieldValues, r \in FieldValues,
        s \in FieldValues, d \in FieldValues }

---------------------------------------------------------------------------
(* wordWrap, step by step *)

MaxTextLen == 5
MaxBudget == 4

WrapAlphabet == {"a", "b", " "}

WrapStart ==
    /\ wwPc = "start"
    /\ IF wwText = <<>>
       THEN /\ wwResult' = << <<>> >>
            /\ wwPc' = "done"
            /\ UNCHANGED wwWords
       ELSE /\ wwWords' = splitWords(wwText)
            /\ wwPc' = "loop"
            /\ UNCHANGED wwResult
    /\ UNCHANGED <<wwText, wwMax, wwLines, wwCurrentLine, wwRemaining, notWrapVars>>

\* One turn of the for loop, up to the hard-split loop if the word needs it.
WrapWord ==
    /\ wwPc = "loop"
    /\ wwWords # <<>>
    /\ LET word == Head(wwWords)
           pushed == IF wwCurrentLine # <<>>
                     THEN Append(wwLines, wwCurrentLine) ELSE wwLines
       IN  IF fitsOnLine(wwCurrentLine, word, wwMax)
           THEN /\ wwCurrentLine' = appendWord(wwCurrentLine, word)
                /\ UNCHANGED <<wwLines, wwRemaining, wwPc>>
           ELSE /\ wwLines' = pushed
                /\ IF Len(word) > wwMax
                   THEN /\ wwRemaining' = word
                        /\ wwPc' = "split"
                        /\ UNCHANGED wwCurrentLine
                   ELSE /\ wwCurrentLine' = word
                        /\ UNCHANGED <<wwRemaining, wwPc>>
    /\ wwWords' = Tail(wwWords)
    /\ UNCHANGED <<wwText, wwMax, wwResult, notWrapVars>>

\* A hard-split loop that does not shorten what remains runs for ever; the
\* model stops it once it has pushed more lines than the text has characters.
TooManyLines == Len(wwLines) > Len(wwText)

SplitStep ==
    /\ wwPc = "split"
    /\ Len(wwRemaining) > wwMax
    /\ ~ TooManyLines
    /\ wwLines' = Append(wwLines, splitPiece(wwRemaining, wwMax))
    /\ wwRemaining' = splitRest(wwRemaining, wwMax)
    /\ UNCHANGED <<wwText, wwMax, wwWords, wwCurrentLine, wwResult, wwPc, notWrapVars>>

SplitEnd ==
    /\ wwPc = "split"
    /\ ~ (Len(wwRemaining) > wwMax)
    /\ wwCurrentLine' = wwRemaining
    /\ wwPc' = "loop"
    /\ UNCHANGED <<wwText, wwMax, wwWords, wwLines, wwRemaining, wwResult, notWrapVars>>

WrapReturn ==
    /\ wwPc = "loop"
    /\ wwWords = <<>>
    /\ wwResult' = wrapResult(wwLines, wwCurrentLine)
    /\ wwPc' = "done"
    /\ UNCHANGED <<wwText, wwMax, wwWords, wwLines, wwCurrentLine, wwRemaining,
                   notWrapVars>>

---------------------------------------------------------------------------
(* parseDiagramMarker *)

UpperLetters == <<"A", "B", "C", "D", "E", "F", "G", "H", "I", "J", "K", "L", "M",
                  "N", "O", "P", "Q", "R", "S", "T", "U", "V", "W", "X", "Y", "Z">>
LowerLetters == <<"a", "b", "c", "d", "e", "f", "g", "h", "i", "j", "k", "l", "m",
                  "n", "o", "p", "q", "r", "s", "t", "u", "v", "w", "x", "y", "z">>
Digits == {"0", "1", "2", "3", "4", "5", "6", "7", "8", "9"}

toLowerChar(ch) ==
    IF \E i \in 1..26 : UpperLetters[i] = ch
    THEN LowerLetters[CHOOSE i \in 1..26 : UpperLetters[i] = ch]
    ELSE ch

\* String.prototype.toLowerCase
toLowerCase(str) == [i \in 1..Len(str) |-> toLowerChar(str[i])]

\* The class \w
IsWordChar(ch) ==
    \/ \E i \in 1..26 : UpperLetters[i] = ch \/ LowerLetters[i] = ch
    \/ ch \in Digits
    \/ ch = "_"

\* The class . (anything but a line terminator)
IsDotChar(ch) == ch # "NL"

\* String.prototype.trim
RECURSIVE trimStart(_)
trimStart(str) ==
    IF str # <<>> /\ IsSpace(Head(str)) THEN trimStart(Tail(str)) ELSE str

RECURSIVE trimEnd(_)
trimEnd(str) ==
    IF str # <<>> /\ IsSpace(str[Len(str)])
    THEN trimEnd(SubSeq(str, 1, Len(str) - 1)) ELSE str

trim(str) == trimEnd(trimStart(str))

\* The number of consecutive characters from index i on that are white
\* space, word characters, or characters matched by the dot.
RECURSIVE spaceRun(_, _)
spaceRun(text, i) ==
    IF i <= Len(text) /\ IsSpace(text[i]) THEN 1 + spaceRun(text, i + 1) ELSE 0

RECURSIVE wordRun(_, _)
wordRun(text, i) ==
    IF i <= Len(text) /\ IsWordChar(text[i]) THEN 1 + wordRun(text, i + 1) ELSE 0

RECURSIVE dotRun(_, _)
dotRun(text, i) ==
    IF i <= Len(text) /\ IsDotChar(text[i]) THEN 1 + dotRun(text, i + 1) ELSE 0

\* The number of characters from index i on before the next "|" (or the end).
RECURSIVE pipeFreeRun(_, _)
pipeFreeRun(text, i) ==
    IF i <= Len(text) /\ text[i] # "|" THEN 1 + pipeFreeRun(text, i + 1) ELSE 0

MarkerOpener == <<"[", "D", "I", "A", "G", "R", "A", "M", ":">>

\* \[DIAGRAM: at index s, letters in either case (the flag i).
openerAt(text, s) ==
    /\ s + Len(MarkerOpener) - 1 <= Len(text)
    /\ \A k \in 1..Len(MarkerOpener) :
           toLowerChar(text[s + k - 1]) = toLowerChar(MarkerOpener[k])

\* Mutant: the description group is lazy, (.+?)\], and ends at the first "]".
firstBracket(text, from, to) ==
    LET qs == {q \in from..to : text[q] = "]"}
    IN  IF qs = {} THEN 0 ELSE CHOOSE q \in qs : \A r \in qs : q <= r

\* The greedy (.+) gives back characters down to the last "]" of its run:
\* the index of that "]" in from..to, or 0.
lastBracket(text, from, to) ==
    LET qs == {q \in from..to : text[q] = "]"}
    IN  IF qs = {} THEN 0 ELSE CHOOSE q \in qs : \A r \in qs : q >= r

\* \s*(.+)\] from index i: \s* takes k white-space characters, as many as
\* allow a match; the group is what lies between them and the closing "]".
\* <<group>>, or <<>> without a match.
RECURSIVE descriptionGroup(_, _, _)
descriptionGroup(text, i, k) ==
    LET from == i + k
        close == lastBracket(text, from + 1, from + dotRun(text, from) - 1)
    IN  IF close # 0 THEN << SubSeq(text, from, close - 1) >>
        ELSE IF k = 0 THEN <<>>
        ELSE descriptionGroup(text, i, k - 1)

\* \s*([^|]+)\s*\| from index i: the group is what lies between the leading
\* white space and the "|", at least one character.  <<group, index after
\* the "|">>, or <<>> without a match.
titleGroup(text, i) ==
    LET n == pipeFreeRun(text, i)
        lead == Min(spaceRun(text, i), n - 1)
    IN  IF n = 0 \/ i + n > Len(text) THEN <<>>
        ELSE <<SubSeq(text, i + lead, i + n - 1), i + n + 1>>

\* \s*(\w+)\s*\| from index i.  <<group, index after the "|">>, or <<>>.
typeGroup(text, i) ==
    LET a == i + spaceRun(text, i)
        w == wordRun(text, a)
        b == a + w + spaceRun(text, a + w)
    IN  IF w = 0 \/ b > Len(text) \/ text[b] # "|" THEN <<>>
        ELSE <<SubSeq(text, a, a + w - 1), b + 1>>

\* The match of the whole expression starting at index s: the three groups,
\* or <<>>.
matchMarkerAt(text, s) ==
    IF ~ openerAt(text, s) THEN <<>>
    ELSE LET t == typeGroup(text, s + Len(MarkerOpener))
         IN  IF t = <<>> THEN <<>>
             ELSE LET u == titleGroup(text, t[2])
                  IN  IF u = <<>> THEN <<>>
                      ELSE LET d == descriptionGroup(text, u[2],
                                                     spaceRun(text, u[2]))
                           IN  IF d = <<>> THEN <<>>
                               ELSE <<t[1], u[1], d[1]>>

\* text.match(...): the match at the leftmost index that has one.
RECURSIVE matchMarker(_, _)
matchMarker(text, s) ==
    IF s > Len(text) THEN <<>>
    ELSE IF matchMarkerAt(text, s) # <<>> THEN matchMarkerAt(text, s)
    ELSE matchMarker(text, s + 1)

\* parseDiagramMarker: <<>> for null, else a one-element sequence holding
\* the object.
parseDiagramMarker(text) ==
    LET match == matchMarker(text, 1)
    IN  IF match = <<>> THEN <<>>
        ELSE << [type |-> trim(toLowerCase(match[1])),
                 title |-> trim(match[2]),
                 description |-> trim(match[3])] >>

\* The marker text '[DIAGRAM: type | title | description]'.
markerText(type, title, description) ==
    MarkerOpener \o <<" ">> \o type \o <<" ", "|", " ">> \o title
        \o <<" ", "|", " ">> \o description \o <<"]">>

\* The five known kinds.
KnownTypes ==
    { <<"f", "l", "o", "w", "c", "h", "a", "r", "t">>,
      <<"t", "r", "e", "e">>,
      <<"t", "a", "b", "l", "e">>,
      <<"l", "a", "b", "e", "l", "e", "d">>,
      <<"c", "y", "c", "l", "e">> }

MaxFieldLen == 3

\* Pipe-free characters: a letter, a blank, a line break, a closing bracket.
MarkerAlphabet == {"a", " ", "NL", "]"}

ParseMarker ==
    /\ mkPc = "start"
    /\ mkResult' = parseDiagramMarker(mkText)
    /\ mkPc' = "done"
    /\ UNCHANGED <<mkType, mkTitle, mkDescription, mkText, notMarkerVars>>

---------------------------------------------------------------------------
(* Variation engine: the seeded generator *)

\* A 32-bit integer is kept as its two 16-bit halves <<high, low>>, so that
\* no intermediate value leaves the range of the model's integers.
Half == 65536

RECURSIVE bitXor(_, _, _)
bitXor(x, y, n) ==
    IF n = 0 THEN 0
    ELSE ((x + y) % 2) + 2 * bitXor(x \div 2, y \div 2, n - 1)

RECURSIVE bitOr(_, _, _)
bitOr(x, y, n) ==
    IF n = 0 THEN 0
    ELSE (IF x % 2 = 1 \/ y % 2 = 1 THEN 1 ELSE 0)
             + 2 * bitOr(x \div 2, y \div 2, n - 1)

\* a |= 0 for a non-negative number below 2^31.
toInt32(n) == <<(n \div Half) % Half, n % Half>>

\* x ^ y
xor32(x, y) == <<bitXor(x[1], y[1], 16), bitXor(x[2], y[2], 16)>>

\* x >>> k, for 0 < k < 16
shr32(x, k) ==
    <<x[1] \div (2 ^ k), (x[2] \div (2 ^ k)) + (x[1] % (2 ^ k)) * (2 ^ (16 - k))>>

\* m | x, for 0 <= m < 2^16
or32(m, x) == <<x[1], bitOr(x[2], m, 16)>>

\* x + y | 0
add32(x, y) ==
    LET low == x[2] + y[2]
    IN  <<(x[1] + y[1] + (low \div Half)) % Half, low % Half>>

\* The 32-bit product of two 16-bit numbers, as <<high, low>>.
mul16(x, y) ==
    LET p0 == (x % 256) * y
        p1 == (x \div 256) * y
        s  == p0 + (p1 % 256) * 256
    IN  <<(p1 \div 256) + (s \div Half), s % Half>>

\* Math.imul(x, y): the low 32 bits of the product.
imul(x, y) ==
    LET ll == mul16(x[2], y[2])
    IN  <<(ll[1] + mul16(x[1], y[2])[2] + mul16(x[2], y[1])[2]) % Half, ll[2]>>

\* 0x6D2B79F5
Increment == <<27947, 31221>>

\* mulberry32, one call of the returned function on the cell a:
\* the new value of a ...
mulberryAdvance(a) == add32(a, Increment)

\* ... and the 32-bit numerator of the returned number (over 4294967296).
mulberryOutput(a) ==
    LET t1 == imul(xor32(a, shr32(a, 15)), or32(1, a))
        t2 == xor32(add32(t1, imul(xor32(t1, shr32(t1, 7)), or32(61, t1))), t1)
    IN  xor32(t2, shr32(t2, 14))

---------------------------------------------------------------------------
(* Variation engine: the fatigue multiplier *)

RECURSIVE gcd(_, _)
gcd(m, n) == IF n = 0 THEN m ELSE gcd(n, m % n)

\* The number n / d >= 0 in lowest terms, as <<numerator, denominator>>.
fraction(n, d) == LET g == gcd(n, d) IN <<n \div g, d \div g>>

\* x < y for two such numbers, by their continued fractions (no product of
\* a numerator and a denominator is formed).
RECURSIVE fracLess(_, _)
fracLess(x, y) ==
    LET qx == x[1] \div x[2]
        qy == y[1] \div y[2]
        rx == x[1] % x[2]
        ry == y[1] % y[2]
    IN  IF qx # qy THEN qx < qy
        ELSE IF ry = 0 THEN FALSE
        ELSE IF rx = 0 THEN TRUE
        ELSE fracLess(<<y[2], ry>>, <<x[2], rx>>)

\* renderPage: pageProgress = totalPages > 1 ? pageIndex / (totalPages - 1) : 0
progressOfPage(pageIndex, totalPages) ==
    IF totalPages > 1 THEN fraction(pageIndex, totalPages - 1) ELSE fraction(0, 1)

FatigueModes == {"none", "gradual", "rush", "careful-start"}

\* 6000 * charFatigue, charFatigue = 1.0 + Math.min(charCount / 6000, 0.4)
charFatigue(count) == 6000 + Min(count, 2400)

\* pageProgress > 0.6, for the progress p = <<numerator, denominator>>
rushStartsEarly(p) == 2 * p[1] > p[2]
rushStarts(p) == 5 * p[1] > 3 * p[2]

\* pageProgress < 0.2
carefulPhase(p) == 5 * p[1] < p[2]

\* 20 * denominator(p) * the factor by which the mode multiplies charFatigue
modeFactor(mode, p) ==
    CASE mode = "gradual" -> 20 * p[2] + 12 * p[1]
      [] mode = "rush" ->
            IF rushStarts(p) THEN 60 * p[1] - 16 * p[2] ELSE 20 * p[2]
      [] mode = "careful-start" ->
            IF carefulPhase(p) THEN 8 * p[2] ELSE 9 * p[2] + 15 * p[1]
      [] OTHER -> 20 * p[2]

fatigueMult(mode, p, count) ==
    fraction(charFatigue(count) * modeFactor(mode, p), 6000 * 20 * p[2])

---------------------------------------------------------------------------
(* Variation engine: two engines and their calls *)

Engines == {1, 2}
other(e) == 3 - e

\* The closure cells (a of mulberry32, charCount) that engine e reads and
\* writes: each engine has its own.
sharedCell(e) == 1
cell(e) == e

\* Methods whose result is computed from rand() and fatigueMult(), and
\* those computed from rand() alone.
FatigueMethods ==
    {"baselineJitter", "letterSpacingJitter", "rotationJitter", "sizeJitter",
     "opacityJitter", "wordSpacingJitter", "lineStartJitter", "baselineWave",
     "wordShift", "inkBlob", "lineAngle"}
RandMethods == {"wordStretch", "random"}

\* A call: the method and its arguments (an intensity in tenths).
EngineCall(method, args) == [method |-> method, args |-> args]

\* A returned number is kept as the operands of the expression that computes
\* it: the numerator of rand(), the arguments, and the fatigue multiplier.
\* Equal operands give the same floating-point result.
Result(method, args, r, fatigue) ==
    [method |-> method, args |-> args, rand |-> r, fatigue |-> fatigue]
Undefined == Result("tick", <<>>, <<>>, <<>>)

MaxCalls == 3

\* The calls the engines are driven with.
Calls ==
    { EngineCall("tick", <<>>),
      EngineCall("baselineJitter", <<10>>),
      EngineCall("opacityJitter", <<10>>),
      EngineCall("inkBlob", <<>>),
      EngineCall("random", <<>>) }

\* Both engines are driven by one sequence of calls: the engine that is
\* behind makes the call the other made at that position.
sameSequence(e, c) ==
    LET n == Len(calls[e])
    IN  /\ n < MaxCalls
        /\ n < Len(calls[other(e)]) => c = calls[other(e)][n + 1]

tick(e) ==
    /\ enginePc = "run"
    /\ LET c == EngineCall("tick", <<>>)
       IN  /\ c \in Calls
           /\ sameSequence(e, c)
           /\ calls' = [calls EXCEPT ![e] = Append(@, c)]
    /\ charCount' = [charCount EXCEPT ![cell(e)] = @ + 1]
    /\ returned' = [returned EXCEPT ![e] = Append(@, Undefined)]
    /\ UNCHANGED <<seed, fatigueMode, pageProgress, randState, enginePc,
                   notEngineVars>>

jitter(e) ==
    /\ enginePc = "run"
    /\ \E c \in Calls :
        /\ c.method \in FatigueMethods
        /\ sameSequence(e, c)
        /\ calls' = [calls EXCEPT ![e] = Append(@, c)]
        /\ LET a == mulberryAdvance(randState[cell(e)])
           IN  /\ randState' = [randState EXCEPT ![cell(e)] = a]
               /\ returned' = [returned EXCEPT ![e] = Append(@,
                      Result(c.method, c.args, mulberryOutput(a),
                               fatigueMult(fatigueMode[e], pageProgress[e],
                                           charCount[cell(e)])))]
    /\ UNCHANGED <<seed, fatigueMode, pageProgress, charCount, enginePc,
                   notEngineVars>>

random(e) ==
    /\ enginePc = "run"
    /\ \E c \in Calls :
        /\ c.method \in RandMethods
        /\ sameSequence(e, c)
        /\ calls' = [calls EXCEPT ![e] = Append(@, c)]
        /\ LET a == mulberryAdvance(randState[cell(e)])
           IN  /\ randState' = [randState EXCEPT ![cell(e)] = a]
               /\ returned' = [returned EXCEPT ![e] = Append(@,
                      Result(c.method, c.args, mulberryOutput(a), <<>>))]
    /\ UNCHANGED <<seed, fatigueMode, pageProgress, charCount, enginePc,
                   notEngineVars>>

\* Seeds: the default, and renderPage's pageIndex * 13337 + 7919 for page 0.
Seeds == {42, 0 * 13337 + 7919}
EngineModes == {"none", "rush"}
EngineProgress == {progressOfPage(0, 1), progressOfPage(1, 2)}

---------------------------------------------------------------------------
(* The fatigue multiplier on its own *)

MaxPages == 11
Progresses ==
    UNION { {progressOfPage(i, n) : i \in 0..(n - 1)} : n \in 1..MaxPages }
CharCounts == {0, 1, 2399, 2400, 2401}

\* fatigueMult in every mode, at two places of the document and one
\* character count.
EvalFatigue ==
    /\ fmPc = "start"
    /\ fmMult' = [m \in FatigueModes |->
                    [a |-> fatigueMult(m, fmProgressA, fmCharCount),
                     b |-> fatigueMult(m, fmProgressB, fmCharCount)]]
    /\ fmPc' = "done"
    /\ UNCHANGED <<fmCharCount, fmProgressA, fmProgressB, notFatigueVars>>

---------------------------------------------------------------------------
(* Glyph extraction: the binarization threshold *)

Pixel(r, g, b) == [r |-> r, g |-> g, b |-> b]

\* 1000 * (0.299 r + 0.587 g + 0.114 b)
lum(px) == 299 * px.r + 587 * px.g + 114 * px.b

\* toGrayscale: Math.round of the luminance of every pixel.
toGrayscale(img) == [i \in 1..Len(img) |-> (lum(img[i]) + 500) \div 1000]

histogram(g, t) == Cardinality({i \in 1..Len(g) : g[i] = t})

RECURSIVE sumOf(_, _)
sumOf(g, i) == IF i > Len(g) THEN 0 ELSE g[i] + sumOf(g, i + 1)

\* The locals of otsuThreshold that its loop updates.  varBetween is kept as
\* the exact fraction (sumB wF - (sum - sumB) wB)^2 / (wB wF), and maxVar as
\* maxN / maxD; left is TRUE once the loop was left by its break.
otsuStart ==
    [sumB |-> 0, wB |-> 0, maxN |-> 0, maxD |-> 1, threshold |-> 128,
     left |-> FALSE]

\* One iteration of the loop, for the intensity t.
otsuStep(g, sum, s, t) ==
    LET h  == histogram(g, t)
        wB == s.wB + h
        wF == Len(g) - wB
    IN  IF wB = 0 THEN s
        ELSE IF wF = 0 THEN [s EXCEPT !.wB = wB, !.left = TRUE]
        ELSE LET sumB == s.sumB + t * h
                 d    == sumB * wF - (sum - sumB) * wB
                 n    == d * d
                 den  == wB * wF
             IN  IF n * s.maxD > s.maxN * den
                 THEN [s EXCEPT !.sumB = sumB, !.wB = wB, !.maxN = n,
                                !.maxD = den, !.threshold = t]
                 ELSE [s EXCEPT !.sumB = sumB, !.wB = wB]

\* The iterations for t = from .. to - 1, and the 256 iterations taken
\* sixteen at a time.
RECURSIVE otsuRange(_, _, _, _, _)
otsuRange(g, sum, s, from, to) ==
    IF s.left \/ from >= to THEN s
    ELSE otsuRange(g, sum, otsuStep(g, sum, s, from), from + 1, to)

RECURSIVE otsuLoop(_, _, _, _)
otsuLoop(g, sum, s, k) ==
    IF s.left \/ k >= 16 THEN s
    ELSE otsuLoop(g, sum, otsuRange(g, sum, s, 16 * k, 16 * k + 16), k + 1)

otsuThreshold(g) == otsuLoop(g, sumOf(g, 1), otsuStart, 0).threshold

\* extractGlyph: a pixel is ink when lum < threshold.
isInk(px, thr) == lum(px) < 1000 * thr

MaxPixels == 4

\* Black, two greys, white, and a blue ink.
Pixels ==
    { Pixel(0, 0, 0), Pixel(100, 100, 100), Pixel(200, 200, 200),
      Pixel(255, 255, 255), Pixel(0, 0, 255) }
Images == SeqsUpTo(Pixels, MaxPixels) \ {<<>>}

\* Positions of the ink-sensitivity slider (min -60, max 60).
SliderValues == {-60, -1, 0, 1, 60}

handleUpload ==
    /\ samplerPc = "ready"
    /\ \E img \in Images : calibrationFile' = <<img>>
    /\ thresholdOffset' = 0
    /\ samplerPc' = "calibrating"
    /\ UNCHANGED <<gray, threshold, inkMask, notSheetVars>>

setThresholdOffset ==
    /\ samplerPc = "calibrating"
    /\ \E d \in SliderValues : thresholdOffset' = d
    /\ UNCHANGED <<calibrationFile, gray, threshold, inkMask, samplerPc,
                   notSheetVars>>

cancelCalibration ==
    /\ samplerPc = "calibrating"
    /\ calibrationFile' = <<>>
    /\ samplerPc' = "ready"
    /\ UNCHANGED <<thresholdOffset, gray, threshold, inkMask, notSheetVars>>

\* processHandwritingSheet(imageFile, onProgress): the threshold is Otsu's,
\* and every pixel is tested against it.
processHandwritingSheet(img) ==
    LET g   == toGrayscale(img)
        thr == otsuThreshold(g)
    IN  [gray |-> g, threshold |-> thr,
         inkMask |-> [i \in 1..Len(img) |-> isInk(img[i], thr)]]

\* confirmCalibration calls processHandwritingSheet(calibrationFile,
\* setProgress, thresholdOffset); the callee has two parameters.
confirmCalibration ==
    /\ samplerPc = "calibrating"
    /\ calibrationFile # <<>>
    /\ LET result == processHandwritingSheet(calibrationFile[1])
       IN  /\ gray' = result.gray
           /\ threshold' = result.threshold
           /\ inkMask' = result.inkMask
    /\ calibrationFile' = <<>>
    /\ samplerPc' = "done"
    /\ UNCHANGED <<thresholdOffset, notSheetVars>>

---------------------------------------------------------------------------
(* parseText *)

toUpperChar(ch) ==
    IF \E i \in 1..26 : LowerLetters[i] = ch
    THEN UpperLetters[CHOOSE i \in 1..26 : LowerLetters[i] = ch]
    ELSE ch

\* String.prototype.toUpperCase
toUpperCase(str) == [i \in 1..Len(str) |-> toUpperChar(str[i])]

\* lines.join('\n')
RECURSIVE joinLines(_)
joinLines(ls) ==
    IF ls = <<>> THEN <<>>
    ELSE IF Len(ls) = 1 THEN ls[1]
    ELSE ls[1] \o <<"NL">> \o joinLines(Tail(ls))

\* rawText.split('\n'): the pieces between the line breaks.
RECURSIVE splitLines(_)
splitLines(text) ==
    LET breaks == {i \in 1..Len(text) : text[i] = "NL"}
    IN  IF breaks = {} THEN <<text>>
        ELSE LET first == CHOOSE i \in breaks : \A k \in breaks : i <= k
             IN  <<SubSeq(text, 1, first - 1)>>
                     \o splitLines(SubSeq(text, first + 1, Len(text)))

\* isDiagramLine: /\[DIAGRAM:/i.test(text)
isDiagramLine(text) == {s \in 1..Len(text) : openerAt(text, s)} # {}

\* trimmed.startsWith('#')
startsWithHash(str) == str # <<>> /\ str[1] = "#"

\* The length of the run of # from index i on: trimmed.match(/^#+/)[0].length
RECURSIVE hashRun(_, _)
hashRun(str, i) ==
    IF i <= Len(str) /\ str[i] = "#" THEN 1 + hashRun(str, i + 1) ELSE 0

\* Math.min(level, 3)
headingLevelUncapped(k) == k
headingLevel(k) == Min(k, 3)

\* trimmed.replace(/^#+\s*/, '')
stripHashes(str) ==
    LET k == hashRun(str, 1)
    IN  substringFrom(str, k + spaceRun(str, k + 1))

\* /[A-Z]/.test(trimmed)
hasCapital(str) ==
    {i \in 1..Len(str) : str[i] \in {UpperLetters[k] : k \in 1..26}} # {}

\* trimmed.length < 60
shortLineInclusive(str) == Len(str) <= 60
shortLine(str) == Len(str) < 60

\* The test for a short line in capitals.
isCapsHeading(str) ==
    shortLine(str) /\ str = toUpperCase(str) /\ hasCapital(str)

\* currentParagraph.join(' ')
RECURSIVE joinParagraph(_)
joinParagraph(par) ==
    IF par = <<>> THEN <<>>
    ELSE IF Len(par) = 1 THEN par[1]
    ELSE par[1] \o <<" ">> \o joinParagraph(Tail(par))

\* A block of parseText.  level is 0, diagram is NoDiagram and height is
\* NoHeight where the program's object has no such field.
NoHeight == [kind |-> "undefined", value |-> 0]
ParsedBlock(type, text, level, diagram, height) ==
    [type |-> type, text |-> text, level |-> level, diagram |-> diagram,
     height |-> height]
ParagraphBlock(text) == ParsedBlock("paragraph", text, 0, NoDiagram, NoHeight)
HeadingBlock(level, text) == ParsedBlock("heading", text, level, NoDiagram, NoHeight)
DiagramBlock(diagram) ==
    ParsedBlock("diagram", <<>>, 0, diagram, getDiagramHeight(diagram.type))

\* if (currentParagraph.length > 0) blocks.push({type: 'paragraph', ...})
flushParagraph(bs, par) ==
    IF Len(par) > 0 THEN Append(bs, ParagraphBlock(joinParagraph(par))) ELSE bs

\* currentParagraph.push(trimmed)
pushOnlyLast(par, str) == <<str>>
pushLine(par, str) == Append(par, str)

\* The blocks a line with the opener adds: the diagram block if the marker
\* parses, none otherwise.
markerAsProse(str) == <<ParagraphBlock(str)>>
markerBlocks(str) ==
    LET diagram == parseDiagramMarker(str)
    IN  IF diagram # <<>> THEN <<DiagramBlock(diagram[1])>> ELSE <<>>

MaxLines == 2

InputLines ==
    {
      \* a blank line
      <<>>,
      \* a line of white space
      <<" ">>,
      \* prose with white space around it
      <<" ", "a", "b", " ">>,
      \* prose of two words
      <<"c", " ", "d">>,
      \* a level-1 heading followed by white space
      <<"#", " ", "T", " ">>,
      \* four # and no white space after them
      <<"#", "#", "#", "#", "x">>,
      \* a heading after leading white space
      <<" ", "#", "A">>,
      \* a heading without text
      <<"#">>,
      \* a short line in capitals
      <<"A", "B">>,
      \* a line without a letter
      <<"1", "2">>,
      \* 59 capitals
      <<"A", "A", "A", "A", "A", "A", "A", "A", "A", "A", "A", "A", "A", "A", "A", "A", "A", "A", "A", "A", "A", "A", "A", "A", "A", "A", "A", "A", "A", "A", "A", "A", "A", "A", "A", "A", "A", "A", "A", "A", "A", "A", "A", "A", "A", "A", "A", "A", "A", "A", "A", "A", "A", "A", "A", "A", "A", "A", "A">>,
      \* 60 capitals
      <<"A", "A", "A", "A", "A", "A", "A", "A", "A", "A", "A", "A", "A", "A", "A", "A", "A", "A", "A", "A", "A", "A", "A", "A", "A", "A", "A", "A", "A", "A", "A", "A", "A", "A", "A", "A", "A", "A", "A", "A", "A", "A", "A", "A", "A", "A", "A", "A", "A", "A", "A", "A", "A", "A", "A", "A", "A", "A", "A", "A">>,
      \* a marker
      <<"[", "D", "I", "A", "G", "R", "A", "M", ":", " ", "t", "r", "e", "e", " ", "|", " ", "T", " ", "|", " ", "d", "]">>,
      \* a marker in lower case inside prose, of an unknown type
      <<"x", " ", "[", "d", "i", "a", "g", "r", "a", "m", ":", "C", "o", "n", "s", "t", "r", "u", "c", "t", "o", "r", "|", "t", "|", "d", "]", " ", "y">>,
      \* an unfinished marker in lower case
      <<"[", "d", "i", "a", "g", "r", "a", "m", ":", " ", "t", "r", "e", "e", " ", "|", " ", "T">>,
      \* a heading line holding the opener in mixed case
      <<"#", " ", "[", "D", "i", "a", "g", "r", "a", "m", ":">> }

RawTexts == {joinLines(ls) : ls \in SeqsUpTo(InputLines, MaxLines)}

\* The line the loop is at, trimmed.
trimmed == trim(ptLines[ptIndex])
scanning == ptPc = "scan" /\ ptIndex <= Len(ptLines)

\* if (!rawText || !rawText.trim()) return [];  else the lines are split.
ParseStart ==
    /\ ptPc = "start"
    /\ IF rawText = <<>> \/ trim(rawText) = <<>>
       THEN /\ ptPc' = "done"
            /\ UNCHANGED <<ptLines, ptIndex>>
       ELSE /\ ptLines' = splitLines(rawText)
            /\ ptIndex' = 1
            /\ ptPc' = "scan"
    /\ UNCHANGED <<rawText, ptBlocks, currentParagraph, notParseVars>>

BlankLine ==
    /\ scanning
    /\ trimmed = <<>>
    /\ ptBlocks' = flushParagraph(ptBlocks, currentParagraph)
    /\ currentParagraph' = <<>>
    /\ ptIndex' = ptIndex + 1
    /\ UNCHANGED <<rawText, ptLines, ptPc, notParseVars>>

DiagramLine ==
    /\ scanning
    /\ trimmed # <<>>
    /\ isDiagramLine(trimmed)
    /\ ptBlocks' = flushParagraph(ptBlocks, currentParagraph) \o markerBlocks(trimmed)
    /\ currentParagraph' = <<>>
    /\ ptIndex' = ptIndex + 1
    /\ UNCHANGED <<rawText, ptLines, ptPc, notParseVars>>

HashHeading ==
    /\ scanning
    /\ trimmed # <<>>
    /\ ~isDiagramLine(trimmed)
    /\ startsWithHash(trimmed)
    /\ ptBlocks' = Append(flushParagraph(ptBlocks, currentParagraph),
                          HeadingBlock(headingLevel(hashRun(trimmed, 1)),
                                       stripHashes(trimmed)))
    /\ currentParagraph' = <<>>
    /\ ptIndex' = ptIndex + 1
    /\ UNCHANGED <<rawText, ptLines, ptPc, notParseVars>>

CapsHeading ==
    /\ scanning
    /\ trimmed # <<>>
    /\ ~isDiagramLine(trimmed)
    /\ ~startsWithHash(trimmed)
    /\ isCapsHeading(trimmed)
    /\ ptBlocks' = Append(flushParagraph(ptBlocks, currentParagraph),
                          HeadingBlock(2, trimmed))
    /\ currentParagraph' = <<>>
    /\ ptIndex' = ptIndex + 1
    /\ UNCHANGED <<rawText, ptLines, ptPc, notParseVars>>

ProseLine ==
    /\ scanning
    /\ trimmed # <<>>
    /\ ~isDiagramLine(trimmed)
    /\ ~startsWithHash(trimmed)
    /\ ~isCapsHeading(trimmed)
    /\ currentParagraph' = pushLine(currentParagraph, trimmed)
    /\ ptIndex' = ptIndex + 1
    /\ UNCHANGED <<rawText, ptLines, ptBlocks, ptPc, notParseVars>>

\* After the loop: the pending paragraph is flushed and blocks returned.
ParseReturn ==
    /\ ptPc = "scan"
    /\ ptIndex > Len(ptLines)
    /\ ptBlocks' = flushParagraph(ptBlocks, currentParagraph)
    /\ currentParagraph' = <<>>
    /\ ptPc' = "done"
    /\ UNCHANGED <<rawText, ptLines, ptIndex, notParseVars>>

---------------------------------------------------------------------------
(* renderCycle: the steps of a cycle diagram, its boxes and its arrows *)

\* Whether "->" stands at index i of text.
arrowAt(text, i) == i + 1 <= Len(text) /\ text[i] = "-" /\ text[i + 1] = ">"

\* description.split('->'): the pieces between the occurrences of "->",
\* taken from left to right.
RECURSIVE splitArrow(_)
splitArrow(text) ==
    LET at == {i \in 1..Len(text) : arrowAt(text, i)}
    IN  IF at = {} THEN <<text>>
        ELSE LET i == CHOOSE j \in at : \A k \in at : j <= k
             IN  <<SubSeq(text, 1, i - 1)>>
                     \o splitArrow(SubSeq(text, i + 2, Len(text)))

\* .map(s => s.trim()).filter(Boolean): the trimmed pieces that are not
\* empty.
RECURSIVE trimmedSteps(_)
trimmedSteps(pieces) ==
    IF pieces = <<>> THEN <<>>
    ELSE (IF trim(Head(pieces)) = <<>> THEN <<>> ELSE <<trim(Head(pieces))>>)
             \o trimmedSteps(Tail(pieces))

\* The last step is removed when it repeats the first one.
dropClosing(steps) ==
    IF Len(steps) > 1 /\ steps[Len(steps)] = steps[1]
    THEN SubSeq(steps, 1, Len(steps) - 1)
    ELSE steps

\* The index of the step an arrow leads to, without and with the wrap-around.
nextIdxNoWrap(i, n) == i + 1
nextIdx(i, n) == (i + 1) % n

\* Math.min(width, height) * 0.3, in tenths of a pixel.
radius(width, height) == Min(width, height) * 3

\* Step i of n stands at the angle i/n of a full turn on the circle of the
\* given radius: two steps stand at one point when the radius is 0 or their
\* angles differ by whole turns.  dist > 0 is the negation.
distPositive(i, j, n, width, height) ==
    radius(width, height) > 0 /\ (i - j) % n # 0

Box(i, label) == [index |-> i, label |-> label]
Arrow(i, j) == [from |-> i, to |-> j]

MaxSteps == 4

\* Pieces of a description: step names with and without white space around
\* them, a name with a '-' and a '>' that form no arrow, an empty piece.
StepPieces ==
    { <<"A">>, <<" ", "A">>, <<" ", "B", " ">>, <<" ", "C", " ">>,
      <<"-", "B", ">">>, <<>> }

RECURSIVE joinArrow(_)
joinArrow(pieces) ==
    IF pieces = <<>> THEN <<>>
    ELSE IF Len(pieces) = 1 THEN pieces[1]
    ELSE pieces[1] \o <<"-", ">">> \o joinArrow(Tail(pieces))

\* The descriptions parseDiagramMarker hands over: trimmed.
CycleDescriptions ==
    {trim(joinArrow(ps)) : ps \in SeqsUpTo(StepPieces, MaxSteps)}

\* The width renderDiagram passes on for each page type, and the height of
\* a cycle diagram.
cycleWidth(pt) ==
    LET textStartX == pt.marginLeft + 30
        textWidth == A4_WIDTH_PX - textStartX
                        - (IF pt.marginRight # 0 THEN pt.marginRight + 20 ELSE 100)
    IN  (textWidth + 20) - 40

CycleStart ==
    /\ ccPc = "start"
    /\ ccSteps' = dropClosing(trimmedSteps(splitArrow(ccDescription)))
    /\ ccIndex' = 0
    /\ ccPc' = IF ccSteps' = <<>> THEN "done" ELSE "loop"
    /\ UNCHANGED <<ccDescription, ccWidth, ccHeight, ccBoxes, ccArrows>>
    /\ UNCHANGED notCycleVars

CycleStep ==
    /\ ccPc = "loop"
    /\ ccIndex < Len(ccSteps)
    /\ LET n == Len(ccSteps)
           next == nextIdx(ccIndex, n)
       IN  /\ ccBoxes' = Append(ccBoxes, Box(ccIndex, ccSteps[ccIndex + 1]))
           /\ ccArrows' = IF distPositive(next, ccIndex, n, ccWidth, ccHeight)
                          THEN Append(ccArrows, Arrow(ccIndex, next))
                          ELSE ccArrows
    /\ ccIndex' = ccIndex + 1
    /\ UNCHANGED <<ccDescription, ccWidth, ccHeight, ccSteps, ccPc>>
    /\ UNCHANGED notCycleVars

CycleReturn ==
    /\ ccPc = "loop"
    /\ ccIndex >= Len(ccSteps)
    /\ ccPc' = "done"
    /\ UNCHANGED <<ccDescription, ccWidth, ccHeight, ccSteps, ccIndex,
                   ccBoxes, ccArrows>>
    /\ UNCHANGED notCycleVars

---------------------------------------------------------------------------
(* handleGenerate: the text is structured and the blocks are laid out *)

\* '# Title\n\nHello world. This is a test paragraph.'
TitleAndParagraph ==
    <<"#", " ", "T", "i", "t", "l", "e", "NL", "NL", "H", "e", "l", "l",
      "o", " ", "w", "o", "r", "l", "d", ".", " ", "T", "h", "i", "s", " ",
      "i", "s", " ", "a", " ", "t", "e", "s", "t", " ", "p", "a", "r", "a",
      "g", "r", "a", "p", "h", ".">>

\* A heading in capitals, a diagram and a paragraph with white space to trim
\* and to collapse.
CapsDiagramProse ==
    <<"A", "B", "NL", "[", "D", "I", "A", "G", "R", "A", "M", ":", " ",
      "t", "r", "e", "e", " ", "|", " ", "T", " ", "|", " ", "d", "]",
      "NL", " ", "a", "b", " ", " ", "c", " ">>

DocumentTexts == {TitleAndParagraph, CapsDiagramProse}

\* fontSize * 2 and lineSpacing of the style controls: the styles of the
\* layout model and one on which a line holds 23 characters.
GenerateStyles == Styles \cup {[fontSize |-> 200, lineHeight |-> 155]}

\* A block of parseText as paginateContent reads it: a missing height is
\* falsy, a numeric height is a number of pixels.
asBlock(b) ==
    Block(b.type, b.text, b.level, b.diagram,
          CASE b.height.kind = "undefined" -> 0
            [] b.height.kind = "number" -> Px(b.height.value))

\* const blocks = parseText(text); ... paginateContent(blocks, style,
\* pageType, headerInfo), for every style and page type, without a header.
paginateParsed ==
    /\ ptPc = "done"
    /\ pc = "idle"
    /\ blocks' = [i \in 1..Len(ptBlocks) |-> asBlock(ptBlocks[i])]
    /\ style' \in GenerateStyles
    /\ pageType' \in PAGE_TYPES
    /\ headerInfo' = NoHeader
    /\ pc' = "start"
    /\ UNCHANGED <<headerLines, allLines, pages, pageLines, currentY, lineIndex>>
    /\ UNCHANGED notPagVars

---------------------------------------------------------------------------
(* The template sheet, the detected grid and the uniform grid fallback *)

\* The characters expected on the template, row by row.
TEMPLATE_ROWS ==
    <<
       <<"A", "B", "C", "D", "E", "F", "G", "H", "I", "J", "K", "L", "M">>,
       <<"N", "O", "P", "Q", "R", "S", "T", "U", "V", "W", "X", "Y", "Z">>,
       <<"a", "b", "c", "d", "e", "f", "g", "h", "i", "j", "k", "l", "m">>,
       <<"n", "o", "p", "q", "r", "s", "t", "u", "v", "w", "x", "y", "z">>,
       <<"0", "1", "2", "3", "4", "5", "6", "7", "8", "9">>,
       <<".", ",", ";", ":", "!", "?", "(", ")", "-", "/">>
    >>

\* Array.prototype.flat on an array of arrays, without and with the last one.
RECURSIVE flatWithoutLast(_)
flatWithoutLast(rows) ==
    IF Len(rows) <= 1 THEN <<>>
    ELSE Head(rows) \o flatWithoutLast(Tail(rows))

RECURSIVE flat(_)
flat(rows) ==
    IF rows = <<>> THEN <<>> ELSE Head(rows) \o flat(Tail(rows))

TEMPLATE_CHARS == flat(TEMPLATE_ROWS)

CELL_W == 120
CELL_H == 140
GRID_PAD == 40
COLS == 13

\* The size of the template image.
templateWidth == GRID_PAD * 2 + COLS * CELL_W
templateHeight == GRID_PAD * 2 + Len(TEMPLATE_ROWS) * CELL_H + 100

\* A rectangle of the template or of the grid.
Cell(x, y, w, h) == [x |-> x, y |-> y, w |-> w, h |-> h]

\* Math.round(n / d) for n >= 0 and d > 0: halves go up.
roundDiv(n, d) == (2 * n + d) \div (2 * d)

\* uniformGrid(width, height): per row, as many cells as the row has
\* characters, each Math.round(width / rowChars) wide.
uniformGrid(width, height) ==
    LET titleHeight == roundDiv(height * 8, 100)
        availableH == height - titleHeight - roundDiv(height * 4, 100)
        rowH == roundDiv(availableH, Len(TEMPLATE_ROWS))
    IN  [r \in 1..Len(TEMPLATE_ROWS) |->
            LET rowChars == Len(TEMPLATE_ROWS[r])
                cellW == roundDiv(width, rowChars)
            IN  [c \in 1..rowChars |->
                    Cell((c - 1) * cellW, titleHeight + (r - 1) * rowH,
                         cellW, rowH)]]

\* The uploaded sheet is the template image enlarged s times, s up to
\* MaxScale.
MaxScale == 2

TemplateStart ==
    /\ tpPc = "start"
    /\ tpY' = GRID_PAD + 80
    /\ tpRow' = 0
    /\ tpCol' = 0
    /\ tpPc' = "draw"
    /\ UNCHANGED <<tpCells, sheetWidth, sheetHeight, gridCells, exRow, exCol,
                   charIndex, examined>>
    /\ UNCHANGED notTemplateVars

\* One cell of the template: its border and its label.
DrawCell ==
    /\ tpPc = "draw"
    /\ tpRow < Len(TEMPLATE_ROWS)
    /\ tpCol < Len(TEMPLATE_ROWS[tpRow + 1])
    /\ tpCells' = Append(tpCells,
                         [row |-> tpRow, col |-> tpCol,
                          label |-> TEMPLATE_ROWS[tpRow + 1][tpCol + 1],
                          rect |-> Cell(GRID_PAD + tpCol * CELL_W, tpY,
                                        CELL_W, CELL_H)])
    /\ tpCol' = tpCol + 1
    /\ UNCHANGED <<tpRow, tpY, tpPc, sheetWidth, sheetHeight, gridCells, exRow,
                   exCol, charIndex, examined>>
    /\ UNCHANGED notTemplateVars

EndRow ==
    /\ tpPc = "draw"
    /\ tpRow < Len(TEMPLATE_ROWS)
    /\ tpCol >= Len(TEMPLATE_ROWS[tpRow + 1])
    /\ tpY' = tpY + CELL_H
    /\ tpRow' = tpRow + 1
    /\ tpCol' = 0
    /\ UNCHANGED <<tpCells, tpPc, sheetWidth, sheetHeight, gridCells, exRow,
                   exCol, charIndex, examined>>
    /\ UNCHANGED notTemplateVars

TemplateReturn ==
    /\ tpPc = "draw"
    /\ tpRow >= Len(TEMPLATE_ROWS)
    /\ tpPc' = "printed"
    /\ UNCHANGED <<tpRow, tpCol, tpY, tpCells, sheetWidth, sheetHeight, gridCells,
                   exRow, exCol, charIndex, examined>>
    /\ UNCHANGED notTemplateVars

\* detectGridCells finds no grid lines on the uploaded sheet and falls back
\* to uniformGrid.
gridFallback ==
    /\ tpPc = "printed"
    /\ \E s \in 1..MaxScale :
          /\ sheetWidth' = s * templateWidth
          /\ sheetHeight' = s * templateHeight
    /\ gridCells' = uniformGrid(sheetWidth', sheetHeight')
    /\ exRow' = 0
    /\ exCol' = 0
    /\ charIndex' = 0
    /\ tpPc' = "extract"
    /\ UNCHANGED <<tpRow, tpCol, tpY, tpCells, examined>>
    /\ UNCHANGED notTemplateVars

\* The grid lines findGridLines can find on the sheet: the borders of the
\* template's cells, enlarged s times.  All 7 horizontal borders, and the
\* first v vertical ones.
sheetHLines(s) ==
    [r \in 1..(Len(TEMPLATE_ROWS) + 1) |-> s * (GRID_PAD + 80 + (r - 1) * CELL_H)]
sheetVLines(s, v) == [c \in 1..v |-> s * (GRID_PAD + (c - 1) * CELL_W)]

\* The numbers of vertical lines found: all 14 of the template, the 11 that
\* border the rows of 10 characters, or 2.
DetectedVLines == {COLS + 1, 11, 2}

\* detectGridCells, the detected grid: one cell between every two
\* neighbouring horizontal and vertical lines.
detectedGrid(hLines, vLines) ==
    [r \in 1..(Len(hLines) - 1) |->
        [c \in 1..(Len(vLines) - 1) |->
            Cell(vLines[c], hLines[r], vLines[c + 1] - vLines[c],
                 hLines[r + 1] - hLines[r])]]

\* detectGridCells finds at least 7 horizontal and 2 vertical lines and
\* builds the grid from them.
gridDetected ==
    /\ tpPc = "printed"
    /\ \E s \in 1..MaxScale, v \in DetectedVLines :
          /\ sheetWidth' = s * templateWidth
          /\ sheetHeight' = s * templateHeight
          /\ Len(sheetHLines(s)) >= Len(TEMPLATE_ROWS) + 1 /\ v >= 2
          /\ gridCells' = detectedGrid(sheetHLines(s), sheetVLines(s, v))
    /\ exRow' = 0
    /\ exCol' = 0
    /\ charIndex' = 0
    /\ tpPc' = "extract"
    /\ UNCHANGED <<tpRow, tpCol, tpY, tpCells, examined>>
    /\ UNCHANGED notTemplateVars

\* processHandwritingSheet: the cell at (row, col) is examined for the
\* character TEMPLATE_CHARS[charIndex].
ExtractCell ==
    /\ tpPc = "extract"
    /\ exRow < Len(gridCells) /\ charIndex < Len(TEMPLATE_CHARS)
    /\ exCol < Len(gridCells[exRow + 1])
    /\ examined' = Append(examined,
                          [char |-> TEMPLATE_CHARS[charIndex + 1],
                           row |-> exRow, col |-> exCol,
                           rect |-> gridCells[exRow + 1][exCol + 1]])
    /\ charIndex' = charIndex + 1
    /\ exCol' = exCol + 1
    /\ UNCHANGED <<tpRow, tpCol, tpY, tpCells, sheetWidth, sheetHeight,
                   gridCells, exRow, tpPc>>
    /\ UNCHANGED notTemplateVars

ExtractRowEnd ==
    /\ tpPc = "extract"
    /\ exRow < Len(gridCells) /\ charIndex < Len(TEMPLATE_CHARS)
    /\ exCol >= Len(gridCells[exRow + 1])
    /\ exRow' = exRow + 1
    /\ exCol' = 0
    /\ UNCHANGED <<tpRow, tpCol, tpY, tpCells, sheetWidth, sheetHeight,
                   gridCells, charIndex, examined, tpPc>>
    /\ UNCHANGED notTemplateVars

ExtractReturn ==
    /\ tpPc = "extract"
    /\ ~(exRow < Len(gridCells) /\ charIndex < Len(TEMPLATE_CHARS))
    /\ tpPc' = "done"
    /\ UNCHANGED <<tpRow, tpCol, tpY, tpCells, sheetWidth, sheetHeight,
                   gridCells, exRow, exCol, charIndex, examined>>
    /\ UNCHANGED notTemplateVars

---------------------------------------------------------------------------
(* saveGlyphMap and loadGlyphMap: the glyph record in IndexedDB *)

\* The characters a glyph map may hold: the first MaxGlyphs characters of
\* the template.
MaxGlyphs == 3
GlyphChars == {TEMPLATE_CHARS[i] : i \in 1..MaxGlyphs}

\* The value under the key 'userGlyphs': <<>> when there is none, else a
\* one-element sequence holding the set of characters of the record.
NoRecord == <<>>
Record(chars) == <<chars>>

\* How a call has settled.
Pending == [kind |-> "pending", map |-> {}]
ResolvedNull == [kind |-> "null", map |-> {}]
ResolvedMap(m) == [kind |-> "map", map |-> m]
ResolvedSave == [kind |-> "saved", map |-> {}]
Rejected == [kind |-> "rejected", map |-> {}]

\* if (loaded === entries.length) resolve(glyphMap)
settleWhenAll(loaded, entries, glyphMap) ==
    IF loaded = Cardinality(entries) THEN ResolvedMap(glyphMap) ELSE Pending

\* loadGlyphMap: the database opens and the record is read; without a
\* record, or with an empty one, the call resolves with null; otherwise an
\* image is created for every entry.
LoadStart ==
    /\ gsPc = "ready"
    /\ gsEntries' = IF gsStored = NoRecord THEN {} ELSE gsStored[1]
    /\ gsDecoding' = gsEntries'
    /\ lgGlyphMap' = {}
    /\ lgLoaded' = 0
    /\ gsResult' = IF gsEntries' = {} THEN ResolvedNull ELSE Pending
    /\ gsPc' = IF gsEntries' = {} THEN "done" ELSE "decoding"
    /\ UNCHANGED <<gsStored, gsPrevious, gsSaving>>
    /\ UNCHANGED notGlyphVars

\* request.onerror or getReq.onerror: resolve(null).
LoadFails ==
    /\ gsPc = "ready"
    /\ gsResult' = ResolvedNull
    /\ gsPc' = "done"
    /\ UNCHANGED <<gsStored, gsPrevious, gsSaving, gsEntries, gsDecoding,
                   lgGlyphMap, lgLoaded>>
    /\ UNCHANGED notGlyphVars

\* img.onload of the entry of character ch.
ImageLoad(ch) ==
    /\ gsPc = "decoding"
    /\ ch \in gsDecoding
    /\ gsDecoding' = gsDecoding \ {ch}
    /\ lgGlyphMap' = lgGlyphMap \cup {ch}
    /\ lgLoaded' = lgLoaded + 1
    /\ gsResult' = settleWhenAll(lgLoaded', gsEntries, lgGlyphMap')
    /\ gsPc' = IF gsResult'.kind = "pending" THEN "decoding" ELSE "done"
    /\ UNCHANGED <<gsStored, gsPrevious, gsSaving, gsEntries>>
    /\ UNCHANGED notGlyphVars

\* img.onerror of the entry of character ch.
ImageError(ch) ==
    /\ gsPc = "decoding"
    /\ ch \in gsDecoding
    /\ gsDecoding' = gsDecoding \ {ch}
    /\ lgLoaded' = lgLoaded + 1
    /\ gsResult' = settleWhenAll(lgLoaded', gsEntries, lgGlyphMap)
    /\ gsPc' = IF gsResult'.kind = "pending" THEN "decoding" ELSE "done"
    /\ UNCHANGED <<gsStored, gsPrevious, gsSaving, gsEntries, lgGlyphMap>>
    /\ UNCHANGED notGlyphVars

\* saveGlyphMap(glyphMap): the database opens and the serialized map is put
\* under the one key in one transaction.
SaveStart ==
    /\ gsPc = "ready"
    /\ gsSaving' \in {Record(m) : m \in SUBSET GlyphChars}
    /\ gsPrevious' = gsStored
    /\ gsPc' = "saving"
    /\ UNCHANGED <<gsStored, gsEntries, gsDecoding, lgGlyphMap, lgLoaded,
                   gsResult>>
    /\ UNCHANGED notGlyphVars

\* tx.oncomplete: the transaction has committed the put.
SaveComplete ==
    /\ gsPc = "saving"
    /\ gsStored' = gsSaving
    /\ gsResult' = ResolvedSave
    /\ gsPc' = "done"
    /\ UNCHANGED <<gsPrevious, gsSaving, gsEntries, gsDecoding, lgGlyphMap,
                   lgLoaded>>
    /\ UNCHANGED notGlyphVars

\* request.onerror or tx.onerror: the transaction is rolled back.
SaveFails ==
    /\ gsPc = "saving"
    /\ gsResult' = Rejected
    /\ gsPc' = "done"
    /\ UNCHANGED <<gsStored, gsPrevious, gsSaving, gsEntries, gsDecoding,
                   lgGlyphMap, lgLoaded>>
    /\ UNCHANGED notGlyphVars

---------------------------------------------------------------------------
(* HandwritingSampler.confirmCalibration: extraction, check, save, adopt *)

\* The bound on the number of glyphs one extraction returns.
MaxExtracted == 11

\* A glyph map is the set of the characters it has a glyph for; characters
\* are numbered by their position in TEMPLATE_CHARS.
ExtractedMaps == {1..k : k \in 0..MaxExtracted}

\* The prop glyphMap of the sampler: null or a glyph map.
NoGlyphMap == <<>>
SomeGlyphMap(m) == <<m>>

\* getGlyphStats(glyphMap).total
getGlyphStats(glyphMap) ==
    IF glyphMap = NoGlyphMap THEN 0 ELSE Cardinality(glyphMap[1])

MinGlyphs == 10

tooFewBelowNine(total) == total < MinGlyphs - 1

\* st.total < 10
tooFew(total) == total < MinGlyphs

\* confirmCalibration up to its first await: the file is set, the processing
\* flag goes up.
UploadConfirm ==
    /\ upPc = "ready"
    /\ isProcessing' = TRUE
    /\ upBeforeRecord' = upRecord
    /\ upBeforeMap' = upGlyphMap
    /\ upPc' = "extracting"
    /\ UNCHANGED <<upRecord, upGlyphMap, gMap, error, upOutcome, notUploadVars>>

\* processHandwritingSheet resolves with a glyph map; with fewer than ten
\* glyphs the handler sets the error and returns (the finally block runs).
ExtractResolves ==
    /\ upPc = "extracting"
    /\ \E m \in ExtractedMaps :
          /\ gMap' = SomeGlyphMap(m)
          /\ IF tooFew(getGlyphStats(SomeGlyphMap(m)))
             THEN /\ error' = "Only a few characters detected"
                  /\ isProcessing' = FALSE
                  /\ upOutcome' = "few"
                  /\ upPc' = "done"
             ELSE /\ upPc' = "saving"
                  /\ UNCHANGED <<error, isProcessing, upOutcome>>
    /\ UNCHANGED <<upRecord, upGlyphMap, upBeforeRecord, upBeforeMap,
                   notUploadVars>>

\* processHandwritingSheet rejects (the image does not load): catch, finally.
ExtractRejects ==
    /\ upPc = "extracting"
    /\ error' = "Processing failed"
    /\ isProcessing' = FALSE
    /\ upOutcome' = "extractFailed"
    /\ upPc' = "done"
    /\ UNCHANGED <<upRecord, upGlyphMap, upBeforeRecord, upBeforeMap, gMap,
                   notUploadVars>>

\* saveGlyphMap: the transaction with the one put completes.
SaveCommits ==
    /\ upPc = "saving"
    /\ upRecord' = gMap
    /\ upPc' = "saved"
    /\ UNCHANGED <<upGlyphMap, upBeforeRecord, upBeforeMap, gMap, error,
                   isProcessing, upOutcome, notUploadVars>>

\* saveGlyphMap rejects (request.onerror, tx.onerror): catch, finally.
SaveRejects ==
    /\ upPc = "saving"
    /\ error' = "Processing failed"
    /\ isProcessing' = FALSE
    /\ upOutcome' = "saveFailed"
    /\ upPc' = "done"
    /\ UNCHANGED <<upRecord, upGlyphMap, upBeforeRecord, upBeforeMap, gMap,
                   notUploadVars>>

\* The continuation after await saveGlyphMap: onGlyphMapChange(gMap),
\* setStats, finally.
AdoptGlyphMap ==
    /\ upPc = "saved"
    /\ upGlyphMap' = gMap
    /\ isProcessing' = FALSE
    /\ upOutcome' = "saved"
    /\ upPc' = "done"
    /\ UNCHANGED <<upRecord, upBeforeRecord, upBeforeMap, gMap, error,
                   notUploadVars>>

---------------------------------------------------------------------------
(* handwritingRenderer: renderPage, renderAllPages *)

\* Vertical positions of the renderer are kept in 1/10000 px, so that
\* lineSpacing * 0.55 is an integer (lineSpacing is in 1/100 px).
Fine(px) == px * 10000

\* A4_HEIGHT_PX - 100, the bound of the break after a text line
safeBottom == Fine(A4_HEIGHT_PX - 100)

spacerAdvanceFull(ls) == ls * 200

\* y += lineSpacing * 0.55
spacerAdvance(ls) == ls * 55

\* y += lineSpacing
textAdvance(ls) == ls * 100

\* line.heightPx || 320
diagramHeight(line) == IF line.heightPx # 0 THEN line.heightPx ELSE Px(320)

\* pageIndex * 13337 + 7919
pageSeed(pageIndex) == pageIndex * 13337 + 7919

\* n calls of rand() on the cell a: a += 0x6D2B79F5, n times
advanceBy(a, n) == add32(a, imul(toInt32(n), Increment))

\* glyphMap && glyphMap[char]
hasGlyph(glyphMap, ch) == ch \in glyphMap

\* The rand() calls of renderChar for one character: six jitters and the ink
\* colour, then three micro-transforms of a glyph or the ink blob test.
charDraws(glyphMap, ch) == IF hasGlyph(glyphMap, ch) THEN 10 ELSE 8

RECURSIVE lineDraws(_, _, _, _)
\* The rand() calls of the character loop of renderLine from position i on.
lineDraws(text, i, inWord, glyphMap) ==
    IF i > Len(text) THEN 0
    ELSE IF text[i] = " "
         THEN 2 + lineDraws(text, i + 1, FALSE, glyphMap)
         ELSE (IF inWord THEN 0 ELSE 1) + charDraws(glyphMap, text[i]) + 1
              + lineDraws(text, i + 1, TRUE, glyphMap)

\* All rand() calls of one renderLine: line angle, line start, the
\* characters, and the ink colour of a heading's underline.
renderLineDraws(text, isHeading, glyphMap) ==
    2 + lineDraws(text, 1, FALSE, glyphMap) + (IF isHeading THEN 1 ELSE 0)

\* The Math.random() calls of a heading's underline: moveTo and 8 segments.
UnderlineDraws == 9

\* The Math.random() calls of renderDiagram that every diagram makes: the
\* two of the jittered title text.
DiagramDraws == 2

\* The ruled pages.
hasRuledLines(pt) == pt.id # "plain"

\* The Math.random() calls of drawPageBackground: 2000 grains and 40 fibres
\* of four calls each, and 25 wobbles for every ruled line from TOP_MARGIN
\* to A4_HEIGHT_PX - 140.
backgroundDraws(pt, ls) ==
    2000 * 4 + 40 * 4
    + (IF hasRuledLines(pt)
       THEN 25 * ((Px(A4_HEIGHT_PX - 140 - TOP_MARGIN) \div ls) + 1)
       ELSE 0)

\* One draw operation of a render pass.  angle is the numerator of the
\* seeded rand() that gives the line angle (<<>> where there is none); noise
\* is the position in the stream of Math.random() from which the operation
\* draws (-1 where it draws none).
Op(type, y, angle, noise) == [type |-> type, y |-> y, angle |-> angle, noise |-> noise]

\* renderChar._tintCanvas: not yet created, or created by the pass of a page.
NoTint == <<>>
TintOf(pageIndex) == <<pageIndex>>

\* Does renderLine draw a character of the line from a glyph?
drawsGlyph(text, glyphMap) ==
    {i \in 1..Len(text) : text[i] # " " /\ hasGlyph(glyphMap, text[i])} # {}

\* The state of a render pass before a line of the page.
Pass(i, y, rand, math, tint, ops, clamped) ==
    [i |-> i, y |-> y, rand |-> rand, math |-> math, tint |-> tint,
     ops |-> ops, clamped |-> clamped]

\* One iteration of the loop over page.lines.
renderLineOf(p, line, ls, glyphMap, pageIndex) ==
    IF line.type = "spacer"
    THEN [p EXCEPT !.i = @ + 1, !.y = @ + spacerAdvance(ls)]
    ELSE IF line.type = "diagram"
    THEN [p EXCEPT !.i = @ + 1,
                   !.y = @ + diagramHeight(line) * 100,
                   !.math = @ + DiagramDraws,
                   !.ops = Append(@, Op("diagram", p.y, <<>>, p.math))]
    ELSE LET isHeading == line.type \in {"heading", "header-title"}
             blank == trim(line.text) = <<>>
             y2 == p.y + textAdvance(ls)
         IN  [p EXCEPT
                !.i = @ + 1,
                !.y = y2,
                !.rand = IF blank THEN @
                         ELSE advanceBy(@, renderLineDraws(line.text, isHeading, glyphMap)),
                !.math = IF ~blank /\ isHeading THEN @ + UnderlineDraws ELSE @,
                !.tint = IF ~blank /\ drawsGlyph(line.text, glyphMap) /\ @ = NoTint
                         THEN TintOf(pageIndex) ELSE @,
                !.ops = IF blank THEN @
                        ELSE Append(@, Op(line.type, p.y,
                                          mulberryOutput(mulberryAdvance(p.rand)),
                                          IF isHeading THEN p.math ELSE -1)),
                !.clamped = y2 > safeBottom]

RECURSIVE renderLines(_, _, _, _, _)
\* for (const line of page.lines) { ... if (y > A4_HEIGHT_PX - 100) break; }
renderLines(p, lines, ls, glyphMap, pageIndex) ==
    IF p.i > Len(lines) \/ p.clamped THEN p
    ELSE renderLines(renderLineOf(p, lines[p.i], ls, glyphMap, pageIndex),
                     lines, ls, glyphMap, pageIndex)

\* What one call of renderPage leaves on its canvas.
\* texture is the position in the stream of Math.random() from which
\* drawPageBackground draws; tintFrom is the pass that created the tint
\* canvas this pass drew its glyphs through.
Canvas(pageIndex, p, texture, usedTint) ==
    [pageIndex |-> pageIndex, ops |-> p.ops, y |-> p.y, visited |-> p.i - 1,
     clamped |-> p.clamped, texture |-> texture,
     tintFrom |-> IF usedTint THEN p.tint ELSE NoTint]

\* renderAllPages(pages, ...) before its first iteration.
renderAllPages ==
    /\ pc = "done"
    /\ rpPc = "idle"
    /\ rpPages' = pages
    /\ rpStyle' = style
    /\ rpPageType' = pageType
    /\ rpGlyphMap' = {}
    /\ rpQueue' = [k \in 1..Len(pages) |-> k - 1]
    /\ canvases' = <<>>
    /\ rpPc' = "rendering"
    /\ UNCHANGED <<mathRandomState, tintCanvas, notRenderVars>>

\* renderPage(canvas, page, style, pageType, inkColor, pageIndex,
\* totalPages, glyphMap, fatigueMode) for the next page index of the queue.
renderPage ==
    /\ rpPc = "rendering"
    /\ rpQueue # <<>>
    /\ LET pageIndex == Head(rpQueue)
           page == rpPages[pageIndex + 1]
           ls == lineSpacing(rpStyle)
           texture == mathRandomState
           start == Pass(1, Fine(TOP_MARGIN), toInt32(pageSeed(pageIndex)),
                         mathRandomState + backgroundDraws(rpPageType, ls),
                         tintCanvas, <<>>, FALSE)
           p == renderLines(start, page.lines, ls, rpGlyphMap, pageIndex)
           usedTint == \E k \in 1..(p.i - 1) :
                          /\ page.lines[k].type \notin {"spacer", "diagram"}
                          /\ drawsGlyph(page.lines[k].text, rpGlyphMap)
       IN  /\ canvases' = Append(canvases,
                             Canvas(pageIndex, p, texture, usedTint))
           /\ mathRandomState' = p.math
           /\ tintCanvas' = p.tint
    /\ rpQueue' = Tail(rpQueue)
    /\ UNCHANGED <<rpPages, rpStyle, rpPageType, rpGlyphMap, rpPc, notRenderVars>>

\* renderAllPages returns the canvases.
renderAllPagesReturn ==
    /\ rpPc = "rendering"
    /\ rpQueue = <<>>
    /\ rpPc' = "done"
    /\ UNCHANGED <<rpPages, rpStyle, rpPageType, rpGlyphMap, rpQueue, canvases,
                   mathRandomState, tintCanvas, notRenderVars>>

---------------------------------------------------------------------------
(* renderFlowchart *)

\* Lengths of the flowchart are kept in twelfths of a pixel, so that the
\* divisions by cols and by cols + 1 (cols is 1, 2 or 3) are exact.
Twelfths(px) == px * 12

\* Math.min(steps.length, 3)
flowCols(n) == Min(n, 3)

\* Math.ceil(steps.length / cols)
flowRows(n) == (n + flowCols(n) - 1) \div flowCols(n)

\* Math.min(240, (width - 80) / Math.min(steps.length, 3))
boxW(width, n) == Min(Twelfths(240), Twelfths(width - 80) \div flowCols(n))

\* (width - cols * boxW) / (cols + 1)
gapX(width, n) ==
    (Twelfths(width) - flowCols(n) * boxW(width, n)) \div (flowCols(n) + 1)

\* Math.floor(i / cols)
rowOf(i, cols) == i \div cols

colOfLeftToRight(i, cols) == i % cols

\* row % 2 === 0 ? i % cols : (cols - 1) - (i % cols)
colOf(i, cols) ==
    IF rowOf(i, cols) % 2 = 0 THEN i % cols ELSE (cols - 1) - (i % cols)

\* The box of step i (from 0): its cell and its top left corner.
FlowBox(i, x, y, width, n) ==
    LET row == rowOf(i, flowCols(n))
        col == colOf(i, flowCols(n))
    IN  [step |-> i, row |-> row, col |-> col,
         bx |-> Twelfths(x) + gapX(width, n) + col * (boxW(width, n) + gapX(width, n)),
         by |-> Twelfths(y + 50) + row * Twelfths(90)]

\* The arrow from step i to step i + 1: sketchyArrow(x1, y1, x2, y2).
FlowArrow(i, x, y, width, n) ==
    LET b == FlowBox(i, x, y, width, n)
        nb == FlowBox(i + 1, x, y, width, n)
        w == boxW(width, n)
        halfH == Twelfths(55) \div 2
    IN  IF nb.row = b.row
        THEN IF nb.col > b.col
             THEN [from |-> i, x1 |-> b.bx + w, y1 |-> b.by + halfH,
                   x2 |-> nb.bx, y2 |-> nb.by + halfH]
             ELSE [from |-> i, x1 |-> b.bx, y1 |-> b.by + halfH,
                   x2 |-> nb.bx + w, y2 |-> nb.by + halfH]
        ELSE [from |-> i, x1 |-> b.bx + (w \div 2), y1 |-> b.by + Twelfths(55),
              x2 |-> nb.bx + (w \div 2), y2 |-> nb.by]

\* renderFlowchart up to the loop: the steps are split off the description;
\* without a step nothing is drawn.
FlowStart ==
    /\ fcPc = "start"
    /\ fcSteps' = trimmedSteps(splitArrow(fcDescription))
    /\ fcIndex' = 0
    /\ fcPc' = IF fcSteps' = <<>> THEN "done" ELSE "loop"
    /\ UNCHANGED <<fcDescription, fcX, fcY, fcWidth, fcBoxes, fcArrows, notFlowVars>>

\* One iteration of the loop: the box of step i, and the arrow to the next
\* step if there is one.
FlowStep ==
    /\ fcPc = "loop"
    /\ fcIndex < Len(fcSteps)
    /\ fcBoxes' = Append(fcBoxes, FlowBox(fcIndex, fcX, fcY, fcWidth, Len(fcSteps)))
    /\ fcArrows' = IF fcIndex < Len(fcSteps) - 1
                   THEN Append(fcArrows, FlowArrow(fcIndex, fcX, fcY, fcWidth, Len(fcSteps)))
                   ELSE fcArrows
    /\ fcIndex' = fcIndex + 1
    /\ UNCHANGED <<fcDescription, fcX, fcY, fcWidth, fcSteps, fcPc, notFlowVars>>

FlowReturn ==
    /\ fcPc = "loop"
    /\ fcIndex >= Len(fcSteps)
    /\ fcPc' = "done"
    /\ UNCHANGED <<fcDescription, fcX, fcY, fcWidth, fcSteps, fcIndex, fcBoxes,
                   fcArrows, notFlowVars>>

---------------------------------------------------------------------------
(* renderTree *)

\* description.split(','): the pieces between the commas, left to right.
RECURSIVE splitComma(_)
splitComma(text) ==
    LET at == {i \in 1..Len(text) : text[i] = ","}
    IN  IF at = {} THEN <<text>>
        ELSE LET i == CHOOSE j \in at : \A k \in at : j <= k
             IN  <<SubSeq(text, 1, i - 1)>>
                     \o splitComma(SubSeq(text, i + 1, Len(text)))

\* nodes.slice(idx, idx + levelSize), idx counted from 0
sliceLevel(nodes, idx, levelSize) ==
    SubSeq(nodes, idx + 1, Min(idx + levelSize, Len(nodes)))

parentIdxSame(i) == i

\* Math.floor(i / 2)
parentIdx(i) == i \div 2

\* The x of node i (from 0) of a level of count nodes, as the fraction
\* <<numerator, denominator>> of the pixels right of the diagram's x:
\* spacing * (i + 1) with spacing = width / (count + 1).
nodeX(i, count, width) == <<width * (i + 1), count + 1>>

\* startY + lvl * levelGap, relative to the diagram's y
levelY(lvl) == 65 + lvl * 80

\* The circle of node i of level lvl (both from 0).
TreeNode(lvl, i, count, width) ==
    [lvl |-> lvl, i |-> i, cx |-> nodeX(i, count, width), cy |-> levelY(lvl)]

\* The line from the parent down to node i of level lvl > 0:
\* sketchyLine(px, py + nodeR, cx, cy - nodeR).
TreeEdge(lvl, i, count, parentCount, width) ==
    [lvl |-> lvl, i |-> i, parent |-> parentIdx(i),
     px |-> nodeX(parentIdx(i), parentCount, width), py |-> levelY(lvl - 1) + 30,
     cx |-> nodeX(i, count, width), cy |-> levelY(lvl) - 30]

\* renderTree up to the level loop: the node list; without a node nothing
\* but the title is drawn.
TreeStart ==
    /\ trPc = "start"
    /\ trNodes' = trimmedSteps(splitComma(trDescription))
    /\ trIdx' = 0
    /\ trLevelSize' = 1
    /\ trPc' = IF trNodes' = <<>> THEN "done" ELSE "levels"
    /\ UNCHANGED <<trDescription, trWidth, trLevels, trLvl, trI, trCircles,
                   trEdges, notTreeVars>>

\* while (idx < nodes.length): one more level.
BuildLevel ==
    /\ trPc = "levels"
    /\ trIdx < Len(trNodes)
    /\ trLevels' = Append(trLevels, sliceLevel(trNodes, trIdx, trLevelSize))
    /\ trIdx' = trIdx + trLevelSize
    /\ trLevelSize' = trLevelSize * 2
    /\ UNCHANGED <<trDescription, trWidth, trNodes, trLvl, trI, trCircles,
                   trEdges, trPc, notTreeVars>>

\* The levels are built: the drawing loops begin.
LevelsBuilt ==
    /\ trPc = "levels"
    /\ trIdx >= Len(trNodes)
    /\ trLvl' = 0
    /\ trI' = 0
    /\ trPc' = "draw"
    /\ UNCHANGED <<trDescription, trWidth, trNodes, trLevels, trIdx,
                   trLevelSize, trCircles, trEdges, notTreeVars>>

\* One iteration of the inner loop: the line to the parent (below the
\* root), the circle and the label of node i of level lvl.
DrawNode ==
    /\ trPc = "draw"
    /\ trLvl < Len(trLevels)
    /\ trI < Len(trLevels[trLvl + 1])
    /\ LET count == Len(trLevels[trLvl + 1])
       IN  /\ trEdges' = IF trLvl > 0
                         THEN Append(trEdges,
                                 TreeEdge(trLvl, trI, count, Len(trLevels[trLvl]), trWidth))
                         ELSE trEdges
           /\ trCircles' = Append(trCircles, TreeNode(trLvl, trI, count, trWidth))
    /\ trI' = trI + 1
    /\ UNCHANGED <<trDescription, trWidth, trNodes, trLevels, trIdx,
                   trLevelSize, trLvl, trPc, notTreeVars>>

\* The inner loop ends: the next level.
NextLevel ==
    /\ trPc = "draw"
    /\ trLvl < Len(trLevels)
    /\ trI >= Len(trLevels[trLvl + 1])
    /\ trLvl' = trLvl + 1
    /\ trI' = 0
    /\ UNCHANGED <<trDescription, trWidth, trNodes, trLevels, trIdx,
                   trLevelSize, trCircles, trEdges, trPc, notTreeVars>>

TreeReturn ==
    /\ trPc = "draw"
    /\ trLvl >= Len(trLevels)
    /\ trPc' = "done"
    /\ UNCHANGED <<trDescription, trWidth, trNodes, trLevels, trIdx,
                   trLevelSize, trLvl, trI, trCircles, trEdges, notTreeVars>>

---------------------------------------------------------------------------
(* useRenderer.handleGenerate: the isGenerating flag *)

\* The bound on the number of handleGenerate calls of one behaviour.
MaxGenerates == 4

\* content.trim() of the two texts of the editor: none and some.
EditorTexts == {<<>>, <<" ">>, <<"a">>}

\* handleGenerate up to its await: a blank text ends the call with a toast;
\* otherwise the flag is raised and the call waits for its 80 ms timer.
startGenerate(content) ==
    /\ genStarted' = genStarted + 1
    /\ IF trim(content) = <<>>
       THEN UNCHANGED <<isGenerating, genTimers>>
       ELSE /\ isGenerating' = TRUE
            /\ genTimers' = Append(genTimers, genStarted + 1)
    /\ UNCHANGED <<shownCanvases, genSettled, notGenVars>>

\* The Generate button of the action bar, disabled while isGenerating.
clickGenerate ==
    /\ ~ isGenerating
    /\ genStarted < MaxGenerates
    /\ \E content \in EditorTexts : startGenerate(content)

\* The Ctrl+G shortcut: handleGenerate() whatever the flag says.
shortcutGenerate ==
    /\ genStarted < MaxGenerates
    /\ \E content \in EditorTexts : startGenerate(content)

\* The oldest timer fires and its call goes on: parse, paginate, render,
\* setCanvases; finally setIsGenerating(false).
generateSucceeds ==
    /\ genTimers # <<>>
    /\ shownCanvases' = <<Head(genTimers)>>
    /\ genSettled' = Append(genSettled, [call |-> Head(genTimers), ok |-> TRUE])
    /\ genTimers' = Tail(genTimers)
    /\ isGenerating' = FALSE
    /\ UNCHANGED <<genStarted, notGenVars>>

\* The same with an exception in the try block: catch, rethrow; finally
\* setIsGenerating(false).
generateThrows ==
    /\ genTimers # <<>>
    /\ genSettled' = Append(genSettled, [call |-> Head(genTimers), ok |-> FALSE])
    /\ genTimers' = Tail(genTimers)
    /\ isGenerating' = FALSE
    /\ UNCHANGED <<genStarted, shownCanvases, notGenVars>>

---------------------------------------------------------------------------
(* useAI.handleAiGenerate: the isAiGenerating flag *)

\* The bound on the number of generation attempts of one behaviour.
MaxAttempts == 4

\* One call of generateAssignment that has not settled.
Attempt(id, useMock) == [id |-> id, useMock |-> useMock]

\* aiConfig.mode === 'cloud' && !hasKey
missingKey == aiMode = "cloud" /\ ~ aiHasKey

\* aiConfig.mode === 'local' && !isLocalhost
fallsBackToDemo == aiMode = "local" /\ ~ aiIsLocalhost

\* handleAiGenerate(prompt, ...) from the prompt box, disabled while
\* isAiGenerating: the flag is raised; without an API key in cloud mode the
\* call hands over to a demo attempt, otherwise the real attempt begins.
handleAiGenerate ==
    /\ ~ isAiGenerating
    /\ aiStarted < MaxAttempts
    /\ isAiGenerating' = TRUE
    /\ aiInFlight' = aiInFlight \cup {Attempt(aiStarted + 1, missingKey)}
    /\ aiStarted' = aiStarted + 1
    /\ UNCHANGED <<aiMode, aiHasKey, aiIsLocalhost, aiContent, notAiVars>>

\* "Try Mock Demo Instead" of the setup guide: handleAiGenerate(prompt, true).
handleAiDemo ==
    /\ aiStarted < MaxAttempts
    /\ isAiGenerating' = TRUE
    /\ aiInFlight' = aiInFlight \cup {Attempt(aiStarted + 1, TRUE)}
    /\ aiStarted' = aiStarted + 1
    /\ UNCHANGED <<aiMode, aiHasKey, aiIsLocalhost, aiContent, notAiVars>>

\* generateAssignment resolves with content: the content is handed on;
\* finally setIsAiGenerating(false).
attemptSucceeds(a) ==
    /\ a \in aiInFlight
    /\ aiContent' = <<a.id>>
    /\ aiInFlight' = aiInFlight \ {a}
    /\ isAiGenerating' = FALSE
    /\ UNCHANGED <<aiMode, aiHasKey, aiIsLocalhost, aiStarted, notAiVars>>

\* generateAssignment rejects or resolves with blank content: catch; a real
\* attempt in local mode away from localhost calls handleAiGenerate(...,
\* true), which raises the flag and begins the demo attempt; finally
\* setIsAiGenerating(false).
attemptFails(a) ==
    /\ a \in aiInFlight
    /\ IF ~ a.useMock /\ fallsBackToDemo
       THEN /\ aiInFlight' = (aiInFlight \ {a}) \cup {Attempt(aiStarted + 1, TRUE)}
            /\ aiStarted' = aiStarted + 1
       ELSE /\ aiInFlight' = aiInFlight \ {a}
            /\ UNCHANGED aiStarted
    /\ isAiGenerating' = FALSE
    /\ UNCHANGED <<aiMode, aiHasKey, aiIsLocalhost, aiContent, notAiVars>>

---------------------------------------------------------------------------
(* Specifications *)

IdleMarker ==
    /\ mkType = <<>>
    /\ mkTitle = <<>>
    /\ mkDescription = <<>>
    /\ mkText = <<>>
    /\ mkResult = <<>>
    /\ mkPc = "idle"

IdlePag ==
    /\ blocks = <<>>
    /\ style = [fontSize |-> 52, lineHeight |-> 155]
    /\ pageType = [id |-> "single-margin", marginLeft |-> 120, marginRight |-> 0]
    /\ headerInfo = NoHeader
    /\ headerLines = <<>>
    /\ allLines = <<>>
    /\ pages = <<>>
    /\ pageLines = [lines |-> <<>>, isFirstPage |-> FALSE]
    /\ currentY = 0
    /\ lineIndex = 0
    /\ pc = "idle"

IdleWrap ==
    /\ wwText = <<>>
    /\ wwMax = 0
    /\ wwWords = <<>>
    /\ wwLines = <<>>
    /\ wwCurrentLine = <<>>
    /\ wwRemaining = <<>>
    /\ wwResult = <<>>
    /\ wwPc = "idle"

IdleEngine ==
    /\ seed = [e \in Engines |-> 42]
    /\ fatigueMode = [e \in Engines |-> "none"]
    /\ pageProgress = [e \in Engines |-> fraction(0, 1)]
    /\ randState = [c \in Engines |-> toInt32(42)]
    /\ charCount = [c \in Engines |-> 0]
    /\ calls = [e \in Engines |-> <<>>]
    /\ returned = [e \in Engines |-> <<>>]
    /\ enginePc = "idle"

IdleFatigue ==
    /\ fmCharCount = 0
    /\ fmProgressA = fraction(0, 1)
    /\ fmProgressB = fraction(0, 1)
    /\ fmMult = [m \in FatigueModes |-> [a |-> fraction(1, 1), b |-> fraction(1, 1)]]
    /\ fmPc = "idle"

NoSheet ==
    /\ calibrationFile = <<>>
    /\ thresholdOffset = 0
    /\ gray = <<>>
    /\ threshold = 0
    /\ inkMask = <<>>

IdleSheet == NoSheet /\ samplerPc = "idle"

IdleParse ==
    /\ rawText = <<>>
    /\ ptLines = <<>>
    /\ ptIndex = 0
    /\ ptBlocks = <<>>
    /\ currentParagraph = <<>>
    /\ ptPc = "idle"

IdleCycle ==
    /\ ccDescription = <<>>
    /\ ccWidth = 0
    /\ ccHeight = 0
    /\ ccSteps = <<>>
    /\ ccIndex = 0
    /\ ccBoxes = <<>>
    /\ ccArrows = <<>>
    /\ ccPc = "idle"

IdleTemplate ==
    /\ tpRow = 0
    /\ tpCol = 0
    /\ tpY = 0
    /\ tpCells = <<>>
    /\ sheetWidth = 0
    /\ sheetHeight = 0
    /\ gridCells = <<>>
    /\ exRow = 0
    /\ exCol = 0
    /\ charIndex = 0
    /\ examined = <<>>
    /\ tpPc = "idle"

IdleGlyph ==
    /\ gsStored = NoRecord
    /\ gsPrevious = NoRecord
    /\ gsSaving = NoRecord
    /\ gsEntries = {}
    /\ gsDecoding = {}
    /\ lgGlyphMap = {}
    /\ lgLoaded = 0
    /\ gsResult = Pending
    /\ gsPc = "idle"

IdleUpload ==
    /\ upRecord = <<>>
    /\ upGlyphMap = <<>>
    /\ upBeforeRecord = <<>>
    /\ upBeforeMap = <<>>
    /\ gMap = <<>>
    /\ error = ""
    /\ isProcessing = FALSE
    /\ upOutcome = "none"
    /\ upPc = "idle"

IdleRender ==
    /\ rpPages = <<>>
    /\ rpStyle = [fontSize |-> 0, lineHeight |-> 0]
    /\ rpPageType = [id |-> "", marginLeft |-> 0, marginRight |-> 0]
    /\ rpGlyphMap = {}
    /\ rpQueue = <<>>
    /\ canvases = <<>>
    /\ mathRandomState = 0
    /\ tintCanvas = <<>>
    /\ rpPc = "idle"

IdleFlow ==
    /\ fcDescription = <<>>
    /\ fcX = 0
    /\ fcY = 0
    /\ fcWidth = 0
    /\ fcSteps = <<>>
    /\ fcIndex = 0
    /\ fcBoxes = <<>>
    /\ fcArrows = <<>>
    /\ fcPc = "idle"

IdleTree ==
    /\ trDescription = <<>>
    /\ trWidth = 0
    /\ trNodes = <<>>
    /\ trLevels = <<>>
    /\ trIdx = 0
    /\ trLevelSize = 0
    /\ trLvl = 0
    /\ trI = 0
    /\ trCircles = <<>>
    /\ trEdges = <<>>
    /\ trPc = "idle"

IdleGen ==
    /\ isGenerating = FALSE
    /\ genStarted = 0
    /\ genTimers = <<>>
    /\ genSettled = <<>>
    /\ shownCanvases = <<>>

IdleAi ==
    /\ aiMode = "cloud"
    /\ aiHasKey = FALSE
    /\ aiIsLocalhost = FALSE
    /\ isAiGenerating = FALSE
    /\ aiInFlight = {}
    /\ aiStarted = 0
    /\ aiContent = <<>>

\* paginateContent called with every input of the bounded sets.
InitPaginate ==
    /\ blocks \in SeqsUpTo(InputBlocks, MaxBlocks)
    /\ style \in Styles
    /\ pageType \in PAGE_TYPES
    /\ headerInfo \in HeaderInfos
    /\ headerLines = <<>>
    /\ allLines = <<>>
    /\ pages = <<>>
    /\ pageLines = [lines |-> <<>>, isFirstPage |-> FALSE]
    /\ currentY = 0
    /\ lineIndex = 0
    /\ pc = "start"
    /\ IdleWrap /\ IdleMarker /\ IdleEngine /\ IdleFatigue /\ IdleSheet /\ IdleParse /\ IdleCycle /\ IdleTemplate /\ IdleGlyph /\ IdleUpload /\ IdleRender /\ IdleFlow /\ IdleTree /\ IdleGen /\ IdleAi

NextPaginate == Flatten \/ StartPage \/ PlaceLine \/ ClosePage \/ Return

SpecPaginate == InitPaginate /\ [][NextPaginate]_vars

\* wordWrap called with every text and budget of the bounded sets.
InitWrap ==
    /\ wwText \in SeqsUpTo(WrapAlphabet, MaxTextLen)
    /\ wwMax \in 1..MaxBudget
    /\ wwWords = <<>>
    /\ wwLines = <<>>
    /\ wwCurrentLine = <<>>
    /\ wwRemaining = <<>>
    /\ wwResult = <<>>
    /\ wwPc = "start"
    /\ IdlePag /\ IdleMarker /\ IdleEngine /\ IdleFatigue /\ IdleSheet /\ IdleParse /\ IdleCycle /\ IdleTemplate /\ IdleGlyph /\ IdleUpload /\ IdleRender /\ IdleFlow /\ IdleTree /\ IdleGen /\ IdleAi

NextWrap == WrapStart \/ WrapWord \/ SplitStep \/ SplitEnd \/ WrapReturn

SpecWrap == InitWrap /\ [][NextWrap]_vars

\* parseDiagramMarker called on the text of every marker of the bounded sets.
InitMarker ==
    /\ mkType \in KnownTypes
    /\ mkTitle \in SeqsUpTo(MarkerAlphabet, MaxFieldLen)
    /\ mkDescription \in SeqsUpTo(MarkerAlphabet, MaxFieldLen)
    /\ mkText = markerText(mkType, mkTitle, mkDescription)
    /\ mkResult = <<>>
    /\ mkPc = "start"
    /\ IdlePag /\ IdleWrap /\ IdleEngine /\ IdleFatigue /\ IdleSheet /\ IdleParse /\ IdleCycle /\ IdleTemplate /\ IdleGlyph /\ IdleUpload /\ IdleRender /\ IdleFlow /\ IdleTree /\ IdleGen /\ IdleAi

NextMarker == ParseMarker

SpecMarker == InitMarker /\ [][NextMarker]_vars

\* Two engines created by createVariationEngine(seed, fatigueMode,
\* pageProgress), each with its own cells.
InitEngine ==
    /\ seed \in [Engines -> Seeds]
    /\ fatigueMode \in [Engines -> EngineModes]
    /\ pageProgress \in [Engines -> EngineProgress]
    /\ randState = [c \in Engines |-> toInt32(seed[c])]
    /\ charCount = [c \in Engines |-> 0]
    /\ calls = [e \in Engines |-> <<>>]
    /\ returned = [e \in Engines |-> <<>>]
    /\ enginePc = "run"
    /\ IdlePag /\ IdleWrap /\ IdleMarker /\ IdleFatigue /\ IdleSheet /\ IdleParse /\ IdleCycle /\ IdleTemplate /\ IdleGlyph /\ IdleUpload /\ IdleRender /\ IdleFlow /\ IdleTree /\ IdleGen /\ IdleAi

NextEngine == \E e \in Engines : tick(e) \/ jitter(e) \/ random(e)

SpecEngine == InitEngine /\ [][NextEngine]_vars

\* fatigueMult called at every character count and pair of progress values
\* of the bounded sets.
InitFatigue ==
    /\ fmCharCount \in CharCounts
    /\ fmProgressA \in Progresses
    /\ fmProgressB \in Progresses
    /\ fmMult = [m \in FatigueModes |-> [a |-> fraction(1, 1), b |-> fraction(1, 1)]]
    /\ fmPc = "start"
    /\ IdlePag /\ IdleWrap /\ IdleMarker /\ IdleEngine /\ IdleSheet /\ IdleParse /\ IdleCycle /\ IdleTemplate /\ IdleGlyph /\ IdleUpload /\ IdleRender /\ IdleFlow /\ IdleTree /\ IdleGen /\ IdleAi

NextFatigue == EvalFatigue

SpecFatigue == InitFatigue /\ [][NextFatigue]_vars

\* The sampler after it is mounted: no file, offset 0.
InitSheet ==
    /\ NoSheet
    /\ samplerPc = "ready"
    /\ IdlePag /\ IdleWrap /\ IdleMarker /\ IdleEngine /\ IdleFatigue /\ IdleParse /\ IdleCycle /\ IdleTemplate /\ IdleGlyph /\ IdleUpload /\ IdleRender /\ IdleFlow /\ IdleTree /\ IdleGen /\ IdleAi

NextSheet ==
    handleUpload \/ setThresholdOffset \/ cancelCalibration \/ confirmCalibration

SpecSheet == InitSheet /\ [][NextSheet]_vars

\* parseText called with every raw text of the bounded set.
InitParse ==
    /\ rawText \in RawTexts
    /\ ptLines = <<>>
    /\ ptIndex = 0
    /\ ptBlocks = <<>>
    /\ currentParagraph = <<>>
    /\ ptPc = "start"
    /\ IdlePag /\ IdleWrap /\ IdleMarker /\ IdleEngine /\ IdleFatigue /\ IdleSheet /\ IdleCycle /\ IdleTemplate /\ IdleGlyph /\ IdleUpload /\ IdleRender /\ IdleFlow /\ IdleTree /\ IdleGen /\ IdleAi

NextParse ==
    \/ ParseStart \/ BlankLine \/ DiagramLine \/ HashHeading \/ CapsHeading
    \/ ProseLine \/ ParseReturn

SpecParse == InitParse /\ [][NextParse]_vars

\* renderCycle called by renderDiagram for a diagram line of type cycle, on
\* every page type.
InitCycle ==
    /\ ccDescription \in CycleDescriptions
    /\ ccWidth \in {cycleWidth(pt) : pt \in PAGE_TYPES}
    /\ ccHeight = getDiagramHeight(cycle).value
    /\ ccSteps = <<>>
    /\ ccIndex = 0
    /\ ccBoxes = <<>>
    /\ ccArrows = <<>>
    /\ ccPc = "start"
    /\ IdlePag /\ IdleWrap /\ IdleMarker /\ IdleEngine /\ IdleFatigue /\ IdleSheet /\ IdleParse /\ IdleTemplate /\ IdleGlyph /\ IdleUpload /\ IdleRender /\ IdleFlow /\ IdleTree /\ IdleGen /\ IdleAi

NextCycle == CycleStart \/ CycleStep \/ CycleReturn

SpecCycle == InitCycle /\ [][NextCycle]_vars

\* handleGenerate on a document text.
InitGenerate ==
    /\ rawText \in DocumentTexts
    /\ ptLines = <<>>
    /\ ptIndex = 0
    /\ ptBlocks = <<>>
    /\ currentParagraph = <<>>
    /\ ptPc = "start"
    /\ IdlePag /\ IdleWrap /\ IdleMarker /\ IdleEngine /\ IdleFatigue /\ IdleSheet /\ IdleCycle /\ IdleTemplate /\ IdleGlyph /\ IdleUpload /\ IdleRender /\ IdleFlow /\ IdleTree /\ IdleGen /\ IdleAi

\* wordWrap on its own, or a whole document structured, wrapped and laid out.
InitDocument == InitWrap \/ InitGenerate

NextDocument ==
    \/ WrapStart \/ WrapWord \/ SplitStep \/ SplitEnd \/ WrapReturn
    \/ ParseStart \/ BlankLine \/ DiagramLine \/ HashHeading \/ CapsHeading
    \/ ProseLine \/ ParseReturn
    \/ paginateParsed
    \/ Flatten \/ StartPage \/ PlaceLine \/ ClosePage \/ Return

SpecDocument == InitDocument /\ [][NextDocument]_vars

\* The template is generated, printed and filled in; its photograph is
\* divided by the fallback grid.
InitTemplate ==
    /\ tpRow = 0
    /\ tpCol = 0
    /\ tpY = 0
    /\ tpCells = <<>>
    /\ sheetWidth = 0
    /\ sheetHeight = 0
    /\ gridCells = <<>>
    /\ exRow = 0
    /\ exCol = 0
    /\ charIndex = 0
    /\ examined = <<>>
    /\ tpPc = "start"
    /\ IdlePag /\ IdleWrap /\ IdleMarker /\ IdleEngine /\ IdleFatigue /\ IdleSheet /\ IdleParse /\ IdleCycle /\ IdleGlyph /\ IdleUpload /\ IdleRender /\ IdleFlow /\ IdleTree /\ IdleGen /\ IdleAi

NextTemplate ==
    \/ TemplateStart \/ DrawCell \/ EndRow \/ TemplateReturn \/ gridFallback
    \/ gridDetected
    \/ ExtractCell \/ ExtractRowEnd \/ ExtractReturn

SpecTemplate == InitTemplate /\ [][NextTemplate]_vars

\* One call of loadGlyphMap or saveGlyphMap on every persisted record.
InitGlyph ==
    /\ gsStored \in {NoRecord} \cup {Record(m) : m \in SUBSET GlyphChars}
    /\ gsPrevious = NoRecord
    /\ gsSaving = NoRecord
    /\ gsEntries = {}
    /\ gsDecoding = {}
    /\ lgGlyphMap = {}
    /\ lgLoaded = 0
    /\ gsResult = Pending
    /\ gsPc = "ready"
    /\ IdlePag /\ IdleWrap /\ IdleMarker /\ IdleEngine /\ IdleFatigue /\ IdleSheet /\ IdleParse /\ IdleCycle /\ IdleTemplate /\ IdleUpload /\ IdleRender /\ IdleFlow /\ IdleTree /\ IdleGen /\ IdleAi

NextGlyph ==
    \/ LoadStart \/ LoadFails
    \/ \E ch \in GlyphChars : ImageLoad(ch)
    \/ \E ch \in GlyphChars : ImageError(ch)
    \/ SaveStart \/ SaveComplete \/ SaveFails

SpecGlyph == InitGlyph /\ [][NextGlyph]_vars

\* One upload confirmed in the calibration dialog, from every persisted
\* record and every glyph map in memory.
InitUpload ==
    /\ upRecord \in {NoGlyphMap} \cup {SomeGlyphMap(m) : m \in ExtractedMaps}
    /\ upGlyphMap \in {NoGlyphMap} \cup {SomeGlyphMap(m) : m \in ExtractedMaps}
    /\ upBeforeRecord = <<>>
    /\ upBeforeMap = <<>>
    /\ gMap = <<>>
    /\ error = ""
    /\ isProcessing = FALSE
    /\ upOutcome = "none"
    /\ upPc = "ready"
    /\ IdlePag /\ IdleWrap /\ IdleMarker /\ IdleEngine /\ IdleFatigue /\ IdleSheet /\ IdleParse /\ IdleCycle /\ IdleTemplate /\ IdleGlyph /\ IdleRender /\ IdleFlow /\ IdleTree /\ IdleGen /\ IdleAi

NextUpload ==
    \/ UploadConfirm \/ ExtractResolves \/ ExtractRejects
    \/ SaveCommits \/ SaveRejects \/ AdoptGlyphMap

SpecUpload == InitUpload /\ [][NextUpload]_vars

\* The lines a page handed to renderPage is made of.
textLine == Line("paragraph", <<"a">>, 0, NoDiagram, 0)
headingLine == Line("heading", <<"A", " ", "b">>, 1, NoDiagram, 0)
diagramLine ==
    Line("diagram", <<>>, 0,
         [type |-> flowchart, title |-> <<"t">>, description |-> <<"d">>], Px(350))
defaultDiagramLine ==
    Line("diagram", <<>>, 0,
         [type |-> flowchart, title |-> <<"t">>, description |-> <<"d">>], 0)

RenderLineKinds == {spacerLine, textLine, headingLine, diagramLine, defaultDiagramLine}

MaxPageLines == 4
ManyDiagramLines == 11

Page(lines) == [lines |-> lines, isFirstPage |-> TRUE]

\* A page of diagram lines only, higher than the sheet.
ManyDiagrams == Page([k \in 1..ManyDiagramLines |-> diagramLine])

RenderStyles ==
    {[fontSize |-> 52, lineHeight |-> 155], [fontSize |-> 500, lineHeight |-> 400]}

GlyphMaps == {{}, {"a", "A"}}

\* renderPage called once, on any page of the bounded set.
InitRenderPage ==
    /\ rpPages \in {<<Page(ls)>> : ls \in SeqsUpTo(RenderLineKinds, MaxPageLines)}
                   \cup {<<ManyDiagrams>>}
    /\ rpStyle \in RenderStyles
    /\ rpPageType \in PAGE_TYPES
    /\ rpGlyphMap \in GlyphMaps
    /\ rpQueue = <<0>>
    /\ canvases = <<>>
    /\ mathRandomState = 0
    /\ tintCanvas = NoTint
    /\ rpPc = "rendering"
    /\ IdlePag /\ IdleWrap /\ IdleMarker /\ IdleEngine /\ IdleFatigue /\ IdleSheet /\ IdleParse /\ IdleCycle /\ IdleTemplate /\ IdleGlyph /\ IdleUpload /\ IdleFlow /\ IdleTree /\ IdleGen /\ IdleAi

MaxRenders == 3

OrderPages == {Page(<<textLine>>), Page(<<headingLine, textLine>>), Page(<<diagramLine>>)}

\* The pages of a two-page document rendered by two or more calls of
\* renderPage in any order, the same page more than once included.
InitRenderOrder ==
    /\ rpPages \in [1..2 -> OrderPages]
    /\ rpStyle = [fontSize |-> 52, lineHeight |-> 155]
    /\ rpPageType \in PAGE_TYPES
    /\ rpGlyphMap \in GlyphMaps
    /\ rpQueue \in UNION {[1..n -> {0, 1}] : n \in 2..MaxRenders}
    /\ canvases = <<>>
    /\ mathRandomState \in {0, 1}
    /\ tintCanvas = NoTint
    /\ rpPc = "rendering"
    /\ IdlePag /\ IdleWrap /\ IdleMarker /\ IdleEngine /\ IdleFatigue /\ IdleSheet /\ IdleParse /\ IdleCycle /\ IdleTemplate /\ IdleGlyph /\ IdleUpload /\ IdleFlow /\ IdleTree /\ IdleGen /\ IdleAi

InitRender == InitRenderPage \/ InitRenderOrder

NextRender == renderPage

SpecRender == InitRender /\ [][NextRender]_vars

\* No header, a title alone, two detail lines without a title, and every
\* field filled in.
RenderHeaders ==
    {h \in HeaderInfos :
        \/ h = NoHeader
        \/ /\ h # NoHeader
           /\ h[1].name = h[1].rollNumber /\ h[1].subject = h[1].date
           /\ h[1].name = h[1].subject}

\* paginateContent on every input of the bounded sets, then renderAllPages
\* on the pages it returned.
InitRenderDocument ==
    /\ blocks \in SeqsUpTo(InputBlocks, MaxBlocks)
    /\ style \in Styles
    /\ pageType = [id |-> "single-margin", marginLeft |-> 120, marginRight |-> 0]
    /\ headerInfo \in RenderHeaders
    /\ headerLines = <<>>
    /\ allLines = <<>>
    /\ pages = <<>>
    /\ pageLines = [lines |-> <<>>, isFirstPage |-> FALSE]
    /\ currentY = 0
    /\ lineIndex = 0
    /\ pc = "start"
    /\ IdleWrap /\ IdleMarker /\ IdleEngine /\ IdleFatigue /\ IdleSheet /\ IdleParse /\ IdleCycle /\ IdleTemplate /\ IdleGlyph /\ IdleUpload /\ IdleRender /\ IdleFlow /\ IdleTree /\ IdleGen /\ IdleAi

NextRenderDocument ==
    \/ Flatten \/ StartPage \/ PlaceLine \/ ClosePage \/ Return
    \/ renderAllPages \/ renderPage \/ renderAllPagesReturn

SpecRenderDocument == InitRenderDocument /\ [][NextRenderDocument]_vars

MaxFlowSteps == 8

FlowPieces == {<<"A">>, <<" ">>}

\* The descriptions parseDiagramMarker hands over: trimmed.
FlowDescriptions ==
    {trim(joinArrow(ps)) : ps \in SeqsUpTo(FlowPieces, MaxFlowSteps)}

\* The width renderPage passes on for a single-margin page, and a width
\* that makes the boxes narrower than 240 px.
FlowWidths == {A4_WIDTH_PX - 150 - 100 + 20, 320}

\* renderFlowchart called on every description of the bounded set, at the
\* left edge and the top margin of the text area.
InitFlow ==
    /\ fcDescription \in FlowDescriptions
    /\ fcX = 140
    /\ fcY \in {TOP_MARGIN, 1000}
    /\ fcWidth \in FlowWidths
    /\ fcSteps = <<>>
    /\ fcIndex = 0
    /\ fcBoxes = <<>>
    /\ fcArrows = <<>>
    /\ fcPc = "start"
    /\ IdlePag /\ IdleWrap /\ IdleMarker /\ IdleEngine /\ IdleFatigue /\ IdleSheet /\ IdleParse /\ IdleCycle /\ IdleTemplate /\ IdleGlyph /\ IdleUpload /\ IdleRender /\ IdleTree /\ IdleGen /\ IdleAi

NextFlow == FlowStart \/ FlowStep \/ FlowReturn

SpecFlow == InitFlow /\ [][NextFlow]_vars

MaxNodes == 8

TreePieces == {<<"A">>, <<" ", "B", ":", "1">>, <<" ">>}

RECURSIVE joinComma(_)
joinComma(pieces) ==
    IF pieces = <<>> THEN <<>>
    ELSE IF Len(pieces) = 1 THEN pieces[1]
    ELSE pieces[1] \o <<",">> \o joinComma(Tail(pieces))

\* The descriptions parseDiagramMarker hands over: trimmed.  Lists of up to
\* MaxNodes pieces; the longer ones are made of named nodes only.
TreeDescriptions ==
    {trim(joinComma(ps)) : ps \in SeqsUpTo(TreePieces, 4)}
        \cup {trim(joinComma(ps)) :
                ps \in UNION {[1..k -> {<<"A">>, <<" ", "B", ":", "1">>}] : k \in 5..MaxNodes}}

\* renderTree called on every description of the bounded set.
InitTree ==
    /\ trDescription \in TreeDescriptions
    /\ trWidth \in {A4_WIDTH_PX - 150 - 100 + 20, 320}
    /\ trNodes = <<>>
    /\ trLevels = <<>>
    /\ trIdx = 0
    /\ trLevelSize = 0
    /\ trLvl = 0
    /\ trI = 0
    /\ trCircles = <<>>
    /\ trEdges = <<>>
    /\ trPc = "start"
    /\ IdlePag /\ IdleWrap /\ IdleMarker /\ IdleEngine /\ IdleFatigue /\ IdleSheet /\ IdleParse /\ IdleCycle /\ IdleTemplate /\ IdleGlyph /\ IdleUpload /\ IdleRender /\ IdleFlow /\ IdleGen /\ IdleAi

NextTree ==
    TreeStart \/ BuildLevel \/ LevelsBuilt \/ DrawNode \/ NextLevel \/ TreeReturn

SpecTree == InitTree /\ [][NextTree]_vars

\* The editor after mount: no generation runs, no canvases are shown.
InitGen ==
    /\ isGenerating = FALSE
    /\ genStarted = 0
    /\ genTimers = <<>>
    /\ genSettled = <<>>
    /\ shownCanvases = <<>>
    /\ IdlePag /\ IdleWrap /\ IdleMarker /\ IdleEngine /\ IdleFatigue /\ IdleSheet /\ IdleParse /\ IdleCycle /\ IdleTemplate /\ IdleGlyph /\ IdleUpload /\ IdleRender /\ IdleFlow /\ IdleTree /\ IdleAi

NextGen == clickGenerate \/ shortcutGenerate \/ generateSucceeds \/ generateThrows

SpecGen == InitGen /\ [][NextGen]_vars

\* The editor after mount, in either mode, with and without an API key, on
\* localhost and elsewhere.
InitAi ==
    /\ aiMode \in {"local", "cloud"}
    /\ aiHasKey \in BOOLEAN
    /\ aiIsLocalhost \in BOOLEAN
    /\ isAiGenerating = FALSE
    /\ aiInFlight = {}
    /\ aiStarted = 0
    /\ aiContent = <<>>
    /\ IdlePag /\ IdleWrap /\ IdleMarker /\ IdleEngine /\ IdleFatigue /\ IdleSheet /\ IdleParse /\ IdleCycle /\ IdleTemplate /\ IdleGlyph /\ IdleUpload /\ IdleRender /\ IdleFlow /\ IdleTree /\ IdleGen

NextAi ==
    \/ handleAiGenerate \/ handleAiDemo
    \/ \E a \in aiInFlight : attemptSucceeds(a)
    \/ \E a \in aiInFlight : attemptFails(a)

SpecAi == InitAi /\ [][NextAi]_vars

---------------------------------------------------------------------------
(* Claims about paginateContent (under SpecPaginate) *)

\* The height of a line as the property counts it: one line-height for a
\* header, text, heading or spacer line, its heightPx for a diagram.
countedHeight(line) ==
    IF line.type = "diagram" THEN line.heightPx ELSE lineSpacing(style)

RECURSIVE sumHeights(_)
sumHeights(lines) ==
    IF lines = <<>> THEN 0
    ELSE countedHeight(Head(lines)) + sumHeights(Tail(lines))

RECURSIVE concatLines(_)
concatLines(seqs) ==
    IF seqs = <<>> THEN <<>> ELSE Head(seqs) \o concatLines(Tail(seqs))

Returned == pc = "done"

\* The lines of page i (1-based) after the header lines.
contentLines(i) ==
    IF i = 1 /\ pages[1].isFirstPage
    THEN SubSeq(pages[1].lines, Len(headerLines) + 1, Len(pages[1].lines))
    ELSE pages[i].lines

IsHeaderType(line) == line.type \in {"header-title", "header-detail"}

\* C1 as stated: every returned page is at most usableHeight high unless it
\* holds exactly one line.
C1_AsStated ==
    Returned =>
        \A i \in 1..Len(pages) :
            \/ sumHeights(pages[i].lines) <= usableHeight
            \/ Len(pages[i].lines) = 1

\* C1 amended: every returned page is at most usableHeight high unless it
\* holds exactly one line or holds the header lines and nothing else.
C1_PageHeight ==
    Returned =>
        \A i \in 1..Len(pages) :
            \/ sumHeights(pages[i].lines) <= usableHeight
            \/ Len(pages[i].lines) = 1
            \/ (i = 1 /\ pages[1].lines = headerLines)

\* A returned first page with the header and content on it, closed because the
\* next line did not fit.
C1_Witness ==
    /\ Returned
    /\ Len(pages) >= 2
    /\ headerLines # <<>>
    /\ Len(pages[1].lines) > Len(headerLines)
    /\ sumHeights(pages[1].lines) <= usableHeight
    /\ sumHeights(pages[1].lines) + lineSpacing(style) > usableHeight

\* C2 as stated: paginateContent terminates (it never makes more pages than
\* it has lines to place, plus the first), every page after the first holds at
\* least one line, it returns at least one page, and for no blocks exactly one
\* page holding the header lines.
C2_AsStated ==
    /\ ~ TooManyPages
    /\ \A i \in 2..Len(pages) : Len(pages[i].lines) >= 1
    /\ Returned => Len(pages) >= 1
    /\ (Returned /\ blocks = <<>>) =>
           pages = <<[lines |-> headerLines, isFirstPage |-> TRUE]>>

\* C3: the lines of the returned pages after the header, in page order, are
\* exactly allLines.
C3_LinesPreserved ==
    Returned =>
        concatLines([i \in 1..Len(pages) |-> contentLines(i)]) = allLines

\* Three pages returned, a paragraph cut by a page boundary.
C3_Witness ==
    /\ Returned
    /\ Len(pages) >= 3
    /\ \E i \in 1..(Len(pages) - 1) :
          /\ pages[i].lines # <<>>
          /\ pages[i + 1].lines # <<>>
          /\ pages[i].lines[Len(pages[i].lines)].type = "paragraph"
          /\ pages[i + 1].lines[1].type = "paragraph"

\* The header lines the property describes, as types and first characters.
expectedHeader ==
    IF headerInfo = NoHeader THEN <<>>
    ELSE LET h == headerInfo[1]
             t == IF h.title # <<>> THEN << <<"header-title", h.title[1]>> >>
                  ELSE <<>>
             a == IF h.name # <<>> THEN << <<"header-detail", "N">> >>
                  ELSE IF h.rollNumber # <<>> THEN << <<"header-detail", "R">> >>
                  ELSE <<>>
             b == IF h.subject # <<>> THEN << <<"header-detail", "S">> >>
                  ELSE IF h.date # <<>> THEN << <<"header-detail", "D">> >>
                  ELSE <<>>
             ls == t \o a \o b
         IN  IF ls # <<>> THEN Append(ls, <<"spacer", "">>) ELSE ls

lineShape(line) ==
    <<line.type, IF line.text = <<>> THEN "" ELSE line.text[1]>>

\* C4: the first page starts with the header lines in the stated order, no
\* other line of any page is a header line, and isFirstPage marks the first
\* page only.
C4_HeaderFirstPageOnly ==
    (pages # <<>>) =>
        /\ Len(pages[1].lines) >= Len(expectedHeader)
        /\ \A k \in 1..Len(expectedHeader) :
               lineShape(pages[1].lines[k]) = expectedHeader[k]
        /\ \A k \in (Len(expectedHeader) + 1)..Len(pages[1].lines) :
               ~ IsHeaderType(pages[1].lines[k])
        /\ \A i \in 2..Len(pages) :
               \A k \in 1..Len(pages[i].lines) : ~ IsHeaderType(pages[i].lines[k])
        /\ \A i \in 1..Len(pages) : pages[i].isFirstPage = (i = 1)

\* Two pages returned, the first under a header of all four lines.
C4_Witness ==
    /\ Returned
    /\ Len(pages) >= 2
    /\ Len(expectedHeader) = 4
    /\ Len(pages[2].lines) >= 1

---------------------------------------------------------------------------
(* Claims about wordWrap (under SpecWrap) *)

WrapReturned == wwPc = "done"

\* Word w is cut in result: m full pieces from line k on, each maxChars - 1
\* characters of w and a hyphen, and the line after them starts with the rest.
cutInto(result, w, maxChars) ==
    \E m \in 1..Len(w) : \E k \in 1..Len(result) :
        /\ k + m <= Len(result)
        /\ Len(w) - m * (maxChars - 1) <= maxChars
        /\ \A j \in 1..m :
               result[k + j - 1] =
                   Append(SubSeq(w, (j - 1) * (maxChars - 1) + 1,
                                 j * (maxChars - 1)), "-")
        /\ LET rest == SubSeq(w, m * (maxChars - 1) + 1, Len(w))
           IN  SubSeq(result[k + m], 1, Len(rest)) = rest

\* C5 as stated: for every budget >= 1 wordWrap returns (its hard-split loop
\* never pushes more lines than the text has characters), no returned line is
\* longer than the budget, and a word longer than the budget is cut into
\* pieces of budget - 1 characters and a hyphen.
C5_AsStated ==
    /\ ~ TooManyLines
    /\ WrapReturned =>
          /\ \A i \in 1..Len(wwResult) : Len(wwResult[i]) <= wwMax
          /\ LET words == splitWords(wwText)
             IN  \A n \in 1..Len(words) :
                     Len(words[n]) > wwMax => cutInto(wwResult, words[n], wwMax)

\* The same for budgets of 2 and more only (what the code does satisfy).
C5_FromTwo == (wwMax >= 2) => C5_AsStated

\* The step machine and the operator wordWrap agree.
WrapAgrees ==
    (WrapReturned /\ wwMax >= 2) => wwResult = wordWrap(wwText, wwMax)

---------------------------------------------------------------------------
(* Claims about parseDiagramMarker (under SpecMarker) *)

MarkerParsed == mkPc = "done"

markerFields ==
    << [type |-> mkType, title |-> mkTitle, description |-> mkDescription] >>

\* C6 as stated: for every known type and every pipe-free title and
\* description the parse of the marker text gives back the three fields.
C6_AsStated == MarkerParsed => mkResult = markerFields

\* C6 amended: it does so when the title and the description neither start
\* nor end with white space and the description holds no line break.
C6_RoundTrip ==
    (/\ MarkerParsed
     /\ trim(mkTitle) = mkTitle
     /\ trim(mkDescription) = mkDescription
     /\ \A i \in 1..Len(mkDescription) : mkDescription[i] # "NL")
    => mkResult = markerFields

\* A marker given back unchanged whose title holds a line break and whose
\* description holds a closing bracket.
C6_Witness ==
    /\ MarkerParsed
    /\ mkResult = markerFields
    /\ \E i \in 1..Len(mkTitle) : mkTitle[i] = "NL"
    /\ \E i \in 1..Len(mkDescription) : mkDescription[i] = "]"
    /\ Len(mkDescription) >= 2

---------------------------------------------------------------------------
(* Variation engine determinism *)

sameConstruction ==
    /\ seed[1] = seed[2]
    /\ fatigueMode[1] = fatigueMode[2]
    /\ pageProgress[1] = pageProgress[2]

commonCalls == 1..Min(Len(calls[1]), Len(calls[2]))

\* C7: two engines created with the same seed, mode and progress and driven
\* by the same sequence of calls return the same value at every call they
\* have both made.
C7_SameValues ==
    (/\ enginePc = "run"
     /\ sameConstruction
     /\ \A i \in commonCalls : calls[1][i] = calls[2][i])
    => \A i \in commonCalls : returned[1][i] = returned[2][i]

\* Both engines, built alike, have made the same MaxCalls calls, among them
\* a tick followed by a call that reads the fatigue multiplier and two calls
\* of rand that returned different numbers.
C7_Witness ==
    /\ enginePc = "run"
    /\ sameConstruction
    /\ calls[1] = calls[2]
    /\ Len(calls[1]) >= 3
    /\ returned[1] = returned[2]
    /\ \E i, j \in 1..Len(calls[1]) :
        /\ i < j
        /\ calls[1][i].method = "tick"
        /\ calls[1][j].method \in FatigueMethods
    /\ \E i, j \in 1..Len(returned[1]) :
        /\ returned[1][i].rand # <<>>
        /\ returned[1][j].rand # <<>>
        /\ returned[1][i].rand # returned[1][j].rand

---------------------------------------------------------------------------
(* The shape of the fatigue multiplier *)

FatigueDone == fmPc = "done"

SixTenths == fraction(6, 10)
TwoTenths == fraction(2, 10)

\* C8: at one character count, 'rush' equals 'none' up to progress 0.6 and
\* grows strictly with the progress above 0.6, so that it is greater at 0.9
\* than at 0.3; 'careful-start' is strictly below 'none' before progress 0.2.
C8_FatigueShape ==
    FatigueDone =>
        /\ ~fracLess(SixTenths, fmProgressA)
              => fmMult["rush"].a = fmMult["none"].a
        /\ (fracLess(SixTenths, fmProgressA) /\ fracLess(fmProgressA, fmProgressB))
              => fracLess(fmMult["rush"].a, fmMult["rush"].b)
        /\ (fmProgressA = fraction(3, 10) /\ fmProgressB = fraction(9, 10))
              => fracLess(fmMult["rush"].a, fmMult["rush"].b)
        /\ fracLess(fmProgressA, TwoTenths)
              => fracLess(fmMult["careful-start"].a, fmMult["none"].a)

\* The multiplier evaluated at progress 0.1 and 0.9 past the character cap:
\* 'careful-start' at 0.1 is below 'none', 'rush' at 0.9 is above 'none'.
C8_Witness ==
    /\ FatigueDone
    /\ fmCharCount > 2400
    /\ fmProgressA = fraction(1, 10)
    /\ fmProgressB = fraction(9, 10)
    /\ fracLess(fmMult["careful-start"].a, fmMult["none"].a)
    /\ fracLess(fmMult["none"].b, fmMult["rush"].b)
    /\ fmMult["rush"].a = fmMult["none"].a

---------------------------------------------------------------------------
(* The binarization threshold *)

SheetDone == samplerPc = "done"

levels == {gray[i] : i \in 1..Len(gray)}
darkPeak == CHOOSE v \in levels : \A w \in levels : v <= w
brightPeak == CHOOSE v \in levels : \A w \in levels : v >= w

\* C9 as stated: when the image has two intensities, the threshold lies
\* strictly between them and every pixel of the darker one is ink.
C9_AsStated ==
    (SheetDone /\ Cardinality(levels) = 2) =>
        /\ darkPeak < threshold
        /\ threshold < brightPeak
        /\ \A i \in 1..Len(gray) : gray[i] = darkPeak => inkMask[i]

\* C10 as stated: the threshold used by the extraction is Otsu's threshold
\* shifted by the offset chosen with the slider.
C10_AsStated ==
    SheetDone => threshold = otsuThreshold(gray) + thresholdOffset

---------------------------------------------------------------------------
(* Claims about parseText (under SpecParse) *)

ParseDone == ptPc = "done"

\* The text holds the opener exactly as written, in capitals.
containsOpenerExact(str) ==
    \E s \in 1..Len(str) :
        /\ s + Len(MarkerOpener) - 1 <= Len(str)
        /\ SubSeq(str, s, s + Len(MarkerOpener) - 1) = MarkerOpener

\* The opener is looked for as written (exact) or in either letter case.
holdsOpener(str, exact) ==
    IF exact THEN containsOpenerExact(str) ELSE isDiagramLine(str)

\* What a line is to the structuring: "blank", "diagram", "hash", "caps" or
\* "prose".
lineKind(str, exact) ==
    LET t == trim(str)
    IN  IF t = <<>> THEN "blank"
        ELSE IF holdsOpener(t, exact) THEN "diagram"
        ELSE IF startsWithHash(t) THEN "hash"
        ELSE IF isCapsHeading(t) THEN "caps"
        ELSE "prose"

\* The blocks a line that is not prose stands for.
blocksOfLine(str, exact) ==
    LET t == trim(str)
        kind == lineKind(str, exact)
    IN  CASE kind = "hash" ->
                <<HeadingBlock(Min(hashRun(t, 1), 3), stripHashes(t))>>
          [] kind = "caps" -> <<HeadingBlock(2, t)>>
          [] kind = "diagram" ->
                IF parseDiagramMarker(t) # <<>>
                THEN <<DiagramBlock(parseDiagramMarker(t)[1])>>
                ELSE <<>>
          [] OTHER -> <<>>

\* The paragraph of a run of consecutive prose lines.
blocksOfRun(run) ==
    IF run = <<>> THEN <<>> ELSE <<ParagraphBlock(joinParagraph(run))>>

\* The blocks of the lines from index i on, in line order, run being the
\* prose lines met since the last line that is not prose.
RECURSIVE expectedBlocks(_, _, _, _)
expectedBlocks(ls, i, run, exact) ==
    IF i > Len(ls) THEN blocksOfRun(run)
    ELSE IF lineKind(ls[i], exact) = "prose"
         THEN expectedBlocks(ls, i + 1, Append(run, trim(ls[i])), exact)
         ELSE blocksOfRun(run) \o blocksOfLine(ls[i], exact)
                  \o expectedBlocks(ls, i + 1, <<>>, exact)

noEmptyParagraph ==
    \A i \in 1..Len(ptBlocks) :
        ptBlocks[i].type = "paragraph" => ptBlocks[i].text # <<>>

blankInput == \A i \in 1..Len(rawText) : IsSpace(rawText[i])

thisLine == ptLines[ptIndex]

\* The step pushes the pending paragraph, if any, and then the blocks bs,
\* and leaves no pending paragraph.
flushesThenPushes(bs) ==
    /\ ptBlocks' = flushParagraph(ptBlocks, currentParagraph) \o bs
    /\ currentParagraph' = <<>>

\* C12 as stated: a line that starts with k >= 1 '#' and does not hold
\* '[DIAGRAM:' as written flushes the pending paragraph and yields one
\* heading of level min(k, 3), its text the line without the '#' run and the
\* white space after it.
C12_AsStated ==
    [][(scanning /\ startsWithHash(thisLine) /\ ~containsOpenerExact(thisLine))
        => flushesThenPushes(<<HeadingBlock(Min(hashRun(thisLine, 1), 3),
                                           stripHashes(thisLine))>>)]_vars

\* C12 amended: so does a line whose trimmed text starts with k >= 1 '#' and
\* that does not hold the opener in either letter case, the heading's text
\* being the trimmed line without the '#' run and the white space after it.
C12_HashHeading ==
    [][(scanning /\ startsWithHash(trimmed) /\ ~isDiagramLine(trimmed))
        => flushesThenPushes(<<HeadingBlock(Min(hashRun(trimmed, 1), 3),
                                           stripHashes(trimmed))>>)]_vars

\* The line just read is prose, or a line with the given test.
lastLine == trim(ptLines[ptIndex - 1])
afterProseThen == ptPc = "scan" /\ ptIndex >= 3
                    /\ lineKind(ptLines[ptIndex - 2], FALSE) = "prose"
                    /\ Len(ptBlocks) >= 2
                    /\ ptBlocks[Len(ptBlocks) - 1].type = "paragraph"

\* A line of more than three '#' was read after a prose line: the paragraph
\* was flushed and a heading of level 3 follows it.
C12_Witness ==
    /\ afterProseThen
    /\ startsWithHash(lastLine)
    /\ hashRun(lastLine, 1) > 3
    /\ ptBlocks[Len(ptBlocks)] = HeadingBlock(3, stripHashes(lastLine))

\* After the opener, in either case, there are two '|' and then a ']'.
hasThreeParts(str) ==
    LET pipes == {i \in 1..Len(str) : str[i] = "|"}
        closings == {i \in 1..Len(str) : str[i] = "]"}
        openers == {i \in 1..Len(str) : openerAt(str, i)}
    IN  \E s \in openers : \E p1 \in pipes : \E p2 \in pipes : \E b \in closings :
            s + Len(MarkerOpener) <= p1 /\ p1 < p2 /\ p2 < b

promotedOrJoined(t) ==
    IF Len(t) < 60 /\ t = toUpperCase(t) /\ hasCapital(t)
    THEN flushesThenPushes(<<HeadingBlock(2, t)>>)
    ELSE /\ ptBlocks' = ptBlocks
         /\ currentParagraph' = Append(currentParagraph, t)

\* C14 as stated: a line that is not blank, does not start with '#' and does
\* not hold '[DIAGRAM:' as written becomes a level-2 heading exactly when its
\* trimmed text is shorter than 60, is its own upper-case form and has a
\* capital letter; otherwise it joins the pending paragraph.
C14_AsStated ==
    [][(scanning /\ trimmed # <<>> /\ ~startsWithHash(thisLine)
            /\ ~containsOpenerExact(thisLine))
        => promotedOrJoined(trimmed)]_vars

\* C14 amended: so for a line that is not blank, whose trimmed text does not
\* start with '#' and that does not hold the opener in either letter case.
C14_CapsHeading ==
    [][(scanning /\ trimmed # <<>> /\ ~startsWithHash(trimmed)
            /\ ~isDiagramLine(trimmed))
        => promotedOrJoined(trimmed)]_vars

\* A line of 59 capitals was read after a prose line and became a heading,
\* the paragraph flushed before it.
C14_Witness ==
    /\ afterProseThen
    /\ Len(lastLine) = 59
    /\ lastLine = toUpperCase(lastLine)
    /\ ptBlocks[Len(ptBlocks)] = HeadingBlock(2, lastLine)
    /\ currentParagraph = <<>>

\* C15 as stated: every diagram block of parseText has a numeric height
\* between 300 and 380, 320 when its type is none of the five kinds.
C15_AsStated ==
    \A i \in 1..Len(ptBlocks) :
        ptBlocks[i].type = "diagram" =>
            /\ ptBlocks[i].height.kind = "number"
            /\ ptBlocks[i].height.value >= 300
            /\ ptBlocks[i].height.value <= 380
            /\ ptBlocks[i].diagram.type \notin KnownTypes
                  => ptBlocks[i].height.value = 320

---------------------------------------------------------------------------
(* Claims about renderCycle (under SpecCycle) *)

CycleDone == ccPc = "done"

\* The steps s1..sk of the description: its pieces between arrows, trimmed,
\* the empty ones left out.
chain == trimmedSteps(splitArrow(ccDescription))

\* The steps that remain: the chain without its last step when k > 1 and the
\* last step equals the first.
remaining ==
    IF Len(chain) > 1 /\ chain[Len(chain)] = chain[1]
    THEN SubSeq(chain, 1, Len(chain) - 1)
    ELSE chain

\* C16: the last step is dropped when k > 1 and it equals the first; with
\* n >= 2 remaining steps exactly n boxes, one per step in order, and exactly
\* n arrows are drawn, arrow i from step i to step (i + 1) mod n.
C16_CycleDrawn ==
    CycleDone =>
        /\ ccSteps = remaining
        /\ Len(remaining) >= 2 =>
              /\ ccBoxes = [i \in 1..Len(remaining) |-> Box(i - 1, remaining[i])]
              /\ ccArrows = [i \in 1..Len(remaining) |->
                                Arrow(i - 1, i % Len(remaining))]

\* A chain A, B, C, A was drawn: boxes A, B, C and the arrows A->B, B->C
\* and C->A.
C16_Witness ==
    /\ CycleDone
    /\ chain = << <<"A">>, <<"B">>, <<"C">>, <<"A">> >>
    /\ ccBoxes = << Box(0, <<"A">>), Box(1, <<"B">>), Box(2, <<"C">>) >>
    /\ ccArrows = << Arrow(0, 1), Arrow(1, 2), Arrow(2, 0) >>

---------------------------------------------------------------------------
(* Claims about wordWrap and the laid-out document (under SpecDocument) *)

\* The text with every run of white space replaced by one space.
RECURSIVE collapseRuns(_)
collapseRuns(text) ==
    IF text = <<>> THEN <<>>
    ELSE IF IsSpace(Head(text))
         THEN <<" ">> \o collapseRuns(trimStart(text))
         ELSE <<Head(text)>> \o collapseRuns(Tail(text))

\* Every word of the text is at most maxChars long.
allWordsFit(text, maxChars) ==
    \A i \in 1..Len(splitWords(text)) : Len(splitWords(text)[i]) <= maxChars

\* The texts of the lines, in order.
textsOf(lines) == [i \in 1..Len(lines) |-> lines[i].text]

\* 'Hello world. This is a test paragraph.'
HelloParagraph == SubSeq(TitleAndParagraph, 10, Len(TitleAndParagraph))

\* The document '# Title\n\nHello ...' was laid out without a header and the
\* words of its paragraph fit the line.
titleDocumentLaidOut ==
    /\ pc = "done"
    /\ rawText = TitleAndParagraph
    /\ headerInfo = NoHeader
    /\ allWordsFit(HelloParagraph, estimateCharsPerLine(style.fontSize, pageType))

\* Page 1 is the heading 'Title' of level 1, a spacer, paragraph lines that
\* rejoin to the paragraph, and the spacer after them.
titleThenParagraph ==
    LET lines == pages[1].lines
        n == Len(lines)
    IN  /\ n >= 4
        /\ lines[1] = Line("heading", <<"T", "i", "t", "l", "e">>, 1, NoDiagram, 0)
        /\ lines[2] = spacerLine
        /\ \A i \in 3..(n - 1) : lines[i].type = "paragraph"
        /\ joinParagraph(textsOf(SubSeq(lines, 3, n - 1))) = HelloParagraph
        /\ lines[n] = spacerLine

\* C17 as stated: when every word fits the budget, the returned lines joined
\* by single spaces are the text with its white space runs collapsed; and
\* the document '# Title\n\nHello ...' starts page 1 with the heading, a
\* spacer and the paragraph lines.
C17_AsStated ==
    /\ (WrapReturned /\ allWordsFit(wwText, wwMax))
          => joinParagraph(wwResult) = collapseRuns(wwText)
    /\ titleDocumentLaidOut => titleThenParagraph

\* C17 amended: the returned lines joined by single spaces are, up to white
\* space at the two ends, the text with its white space runs collapsed; they
\* are exactly that text when it neither starts nor ends with white space.
C17_Rejoin ==
    /\ (WrapReturned /\ allWordsFit(wwText, wwMax))
          => /\ trim(joinParagraph(wwResult)) = collapseRuns(trim(wwText))
             /\ wwText = trim(wwText)
                   => joinParagraph(wwResult) = collapseRuns(wwText)
    /\ titleDocumentLaidOut => titleThenParagraph

\* The document was laid out with its paragraph on two lines; or a text with
\* white space around it and a run inside it was wrapped into two lines.
C17_Witness ==
    \/ /\ titleDocumentLaidOut
       /\ Len(pages[1].lines) = 5
    \/ /\ WrapReturned
       /\ allWordsFit(wwText, wwMax)
       /\ Len(wwResult) = 2
       /\ wwText # trim(wwText)
       /\ Len(collapseRuns(wwText)) < Len(wwText)

---------------------------------------------------------------------------
(* Claims about the template and the fallback grid (under SpecTemplate) *)

TemplatePrinted == tpPc \in {"printed", "extract", "done"}

\* The labels of the cells drawn, in drawing order.
drawnLabels == [i \in 1..Len(tpCells) |-> tpCells[i].label]

allDistinct(chars) ==
    \A i, j \in 1..Len(chars) : chars[i] = chars[j] => i = j

\* The template alphabet has n distinct characters in 6 rows of at most 13
\* columns, and the printed template has one labelled cell for each of them.
alphabetOf(n) ==
    /\ Len(TEMPLATE_CHARS) = n
    /\ allDistinct(TEMPLATE_CHARS)
    /\ Len(TEMPLATE_ROWS) = 6
    /\ \A r \in 1..Len(TEMPLATE_ROWS) : Len(TEMPLATE_ROWS[r]) <= 13
    /\ drawnLabels = TEMPLATE_CHARS
    /\ \A i \in 1..Len(tpCells) : tpCells[i].col < COLS

\* C18 as stated: TEMPLATE_CHARS has exactly 82 distinct characters, in 6
\* rows of at most 13 columns.
C18_AsStated == TemplatePrinted => alphabetOf(82)

\* C18 amended: TEMPLATE_CHARS has exactly 72 distinct characters, in 6 rows
\* of at most 13 columns.
C18_TemplateAlphabet == TemplatePrinted => alphabetOf(72)

\* The template was drawn to its last cell, '/' in the tenth column of the
\* sixth row.
C18_Witness ==
    /\ tpPc = "printed"
    /\ tpCells # <<>>
    /\ tpCells[Len(tpCells)].label = "/"
    /\ tpCells[Len(tpCells)].row = 5
    /\ tpCells[Len(tpCells)].col = 9

GridDone == tpPc = "done"

\* A cell of the template as it lies on the sheet, the template enlarged
\* sheetWidth / templateWidth times.
onSheet(rect) ==
    LET s == sheetWidth \div templateWidth
    IN  Cell(s * rect.x, s * rect.y, s * rect.w, s * rect.h)

\* The centre of the rectangle inner lies in the rectangle outer.
holdsCentre(outer, inner) ==
    /\ 2 * outer.x <= 2 * inner.x + inner.w
    /\ 2 * inner.x + inner.w <= 2 * (outer.x + outer.w)
    /\ 2 * outer.y <= 2 * inner.y + inner.h
    /\ 2 * inner.y + inner.h <= 2 * (outer.y + outer.h)

\* C19 as stated: the fallback grid has 6 rows, the k-th cell of every row
\* stands at the same column position, and the cell examined for a character
\* lies over the template cell of that character (here only: holds its
\* centre), in the rows of 10 characters too.
C19_AsStated ==
    (GridDone /\ gridCells = uniformGrid(sheetWidth, sheetHeight)) =>
        /\ Len(gridCells) = 6
        /\ \A r \in 1..Len(gridCells) : \A k \in 1..Len(gridCells[r]) :
              /\ gridCells[r][k].x = gridCells[1][k].x
              /\ gridCells[r][k].w = gridCells[1][k].w
        /\ Len(examined) = Len(tpCells)
        /\ \A i \in 1..Len(examined) :
              /\ examined[i].char = tpCells[i].label
              /\ holdsCentre(examined[i].rect, onSheet(tpCells[i].rect))

---------------------------------------------------------------------------
(* Claims about glyph persistence (under SpecGlyph) *)

\* loadGlyphMap has resolved.
LoadResolved == gsPc = "done" /\ gsResult.kind \in {"null", "map"}

\* saveGlyphMap has settled.
SaveSettled == gsPc = "done" /\ gsResult.kind \in {"saved", "rejected"}

\* C20 as stated: loadGlyphMap resolves with null or with a map that has a
\* glyph for every character of the persisted record, whatever the order and
\* the outcome of the image decodes; saveGlyphMap stores the whole map or
\* rejects with the record as it was.
C20_AsStated ==
    /\ LoadResolved =>
          \/ gsResult.kind = "null"
          \/ gsStored # NoRecord /\ gsResult.map = gsStored[1]
    /\ SaveSettled =>
          \/ gsResult.kind = "saved" /\ gsStored = gsSaving
          \/ gsResult.kind = "rejected" /\ gsStored = gsPrevious

---------------------------------------------------------------------------
(* Claims about confirmCalibration (under SpecUpload) *)

\* The upload has ended without adopting a glyph map.
UploadFailed == upPc = "done" /\ upOutcome \in {"few", "extractFailed", "saveFailed"}

\* C21: an upload whose extraction yields fewer than 10 characters, or whose
\* extraction or save fails, leaves the persisted record and the glyph map in
\* memory as they were, has set an error message and has lowered
\* isProcessing; the glyph map in memory is replaced only once the save has
\* stored the extracted map.
C21_NoPartialOutput ==
    /\ (upPc = "done" /\ gMap # NoGlyphMap /\ Cardinality(gMap[1]) < 10)
          => upOutcome = "few"
    /\ UploadFailed =>
          /\ upRecord = upBeforeRecord
          /\ upGlyphMap = upBeforeMap
          /\ error # ""
          /\ isProcessing = FALSE
    /\ (upPc \in {"extracting", "saving", "saved"}) =>
          /\ upGlyphMap = upBeforeMap
          /\ isProcessing
    /\ (upPc = "done" /\ upOutcome = "saved") =>
          /\ upRecord = gMap
          /\ upGlyphMap = gMap
          /\ isProcessing = FALSE

\* Nine glyphs were extracted over a stored record and a map in memory, and
\* the upload has ended.
C21_Witness ==
    /\ UploadFailed
    /\ gMap # NoGlyphMap /\ Cardinality(gMap[1]) = 9
    /\ upBeforeRecord # NoGlyphMap /\ upBeforeMap # NoGlyphMap
    /\ upBeforeMap # gMap

---------------------------------------------------------------------------
(* Claims about renderPage (under SpecRender and SpecRenderDocument) *)

\* The operations that draw a line of the page.
lineOps(canvas) ==
    {k \in 1..Len(canvas.ops) :
        canvas.ops[k].type \in {"paragraph", "heading", "header-title",
                                "header-detail", "diagram"}}

\* C22 as stated: no call of renderPage, whatever the lines of its page,
\* draws a text, heading or diagram line with the vertical cursor beyond
\* A4_HEIGHT_PX - 100 = 3408.
C22_AsStated ==
    \A c \in 1..Len(canvases) :
        \A k \in lineOps(canvases[c]) :
            canvases[c].ops[k].y <= Fine(3408)

\* The angle of every drawn line of a canvas: the values of the page's own
\* seeded generator.
jitterValues(canvas) == [k \in 1..Len(canvas.ops) |-> canvas.ops[k].angle]

\* C23 as stated: two calls of renderPage with the same page, style, page
\* type, page index, number of pages and glyph map issue the same draw
\* operations with the same parameters, the paper texture included.
C23_AsStated ==
    \A c \in 1..Len(canvases), d \in 1..Len(canvases) :
        (d = c + 1 /\ canvases[c].pageIndex = canvases[d].pageIndex) =>
            /\ canvases[c].ops = canvases[d].ops
            /\ canvases[c].texture = canvases[d].texture

\* C24 as stated: no render pass uses state written by the pass of another
\* page, and a page gets the same jitter values and the same drawing
\* wherever its pass stands in the order of the passes.
C24_AsStated ==
    /\ \A c \in 1..Len(canvases) :
          canvases[c].tintFrom \in {NoTint, TintOf(canvases[c].pageIndex)}
    /\ \A c \in 1..Len(canvases), d \in 1..Len(canvases) :
          canvases[c].pageIndex = canvases[d].pageIndex =>
              /\ jitterValues(canvases[c]) = jitterValues(canvases[d])
              /\ canvases[c].ops = canvases[d].ops
              /\ canvases[c].texture = canvases[d].texture

\* The height paginateContent accounted for a line: a diagram its
\* diagramSpace, every other line one line spacing (1/100 px).
accounted(line) ==
    IF line.type = "diagram" THEN diagramSpace(line) ELSE lineSpacing(rpStyle)

RECURSIVE accountedHeight(_)
accountedHeight(lines) ==
    IF lines = <<>> THEN 0
    ELSE accounted(Head(lines)) + accountedHeight(Tail(lines))

\* renderAllPages has rendered the pages paginateContent returned.
DocumentRendered == rpPc = "done" /\ pc = "done"

\* The break of the loop of renderPage was taken before the last line.
clampTriggered(canvas, page) == canvas.clamped /\ canvas.visited < Len(page.lines)

---------------------------------------------------------------------------
(* Claims about renderFlowchart (under SpecFlow) *)

\* The box drawn for step i (from 0).
boxOf(i) == fcBoxes[i + 1]

\* Two cells next to each other in one row, or one above the other.
neighbours(a, b) ==
    \/ a.row = b.row /\ (a.col = b.col + 1 \/ b.col = a.col + 1)
    \/ a.col = b.col /\ b.row = a.row + 1

\* C26: with n >= 1 steps and cols = min(n, 3), step i stands in row
\* floor(i / cols), in column i mod cols on the even rows and
\* cols - 1 - (i mod cols) on the odd rows; no two steps share a cell; two
\* consecutive steps are neighbours in a row or stand in one column of two
\* consecutive rows, and every arrow drawn is horizontal or vertical.
C26_Zigzag ==
    LET n == Len(fcSteps)
        cols == Min(n, 3)
    IN  /\ \A i \in 0..(Len(fcBoxes) - 1) :
              /\ boxOf(i).row = i \div cols
              /\ boxOf(i).col = IF boxOf(i).row % 2 = 0 THEN i % cols
                                ELSE cols - 1 - (i % cols)
              /\ boxOf(i).col \in 0..(cols - 1)
        /\ \A i \in 0..(Len(fcBoxes) - 1), j \in 0..(Len(fcBoxes) - 1) :
              i # j => <<boxOf(i).row, boxOf(i).col>> # <<boxOf(j).row, boxOf(j).col>>
        /\ \A i \in 0..(Len(fcBoxes) - 2) : neighbours(boxOf(i), boxOf(i + 1))
        /\ \A k \in 1..Len(fcArrows) :
              \/ fcArrows[k].y1 = fcArrows[k].y2
              \/ fcArrows[k].x1 = fcArrows[k].x2
        /\ fcPc = "done" =>
              /\ Len(fcBoxes) = n
              /\ Len(fcArrows) = Max(n - 1, 0)

\* A flowchart of three rows is drawn, one row in each direction and back.
C26_Witness ==
    /\ fcPc = "done"
    /\ Len(fcBoxes) >= 7
    /\ boxOf(2).col = 2 /\ boxOf(3).col = 2 /\ boxOf(5).col = 0 /\ boxOf(6).col = 0

---------------------------------------------------------------------------
(* Claims about renderTree (under SpecTree) *)

\* The lines drawn down to node i of level lvl.
edgesTo(lvl, i) == {k \in 1..Len(trEdges) : trEdges[k].lvl = lvl /\ trEdges[k].i = i}

\* The lines drawn down from node p of level lvl.
edgesFrom(lvl, p) ==
    {k \in 1..Len(trEdges) : trEdges[k].lvl = lvl + 1 /\ trEdges[k].parent = p}

\* The circle of node i of level lvl is drawn.
circleAt(lvl, i) ==
    {k \in 1..Len(trCircles) : trCircles[k].lvl = lvl /\ trCircles[k].i = i}

\* C27: level L holds the entries 2^L - 1 to 2^(L+1) - 2 of the node list
\* (counted from 0), the last level as far as the list goes; every node i of
\* a level L > 0 is joined by exactly one line to one parent, node
\* floor(i / 2) of level L - 1, which exists and is drawn where the line
\* starts; no node has more than two children and the root has no parent.
C27_TreeShape ==
    /\ \A L \in 0..(Len(trLevels) - 1) :
          trLevels[L + 1] =
              SubSeq(trNodes, 2 ^ L, Min(2 ^ (L + 1) - 1, Len(trNodes)))
    /\ \A k \in 1..Len(trCircles) :
          LET lvl == trCircles[k].lvl
              i == trCircles[k].i
          IN  IF lvl = 0 THEN edgesTo(lvl, i) = {}
              ELSE /\ Cardinality(edgesTo(lvl, i)) = 1
                   /\ \A e \in edgesTo(lvl, i) :
                         /\ trEdges[e].parent = i \div 2
                         /\ trEdges[e].parent < Len(trLevels[lvl])
                         /\ \E c \in circleAt(lvl - 1, trEdges[e].parent) :
                               /\ trCircles[c].cx = trEdges[e].px
                               /\ trCircles[c].cy + 30 = trEdges[e].py
    /\ \A k \in 1..Len(trCircles) :
          Cardinality(edgesFrom(trCircles[k].lvl, trCircles[k].i)) <= 2
    /\ \A e \in 1..Len(trEdges) : trEdges[e].lvl > 0
    /\ trPc = "done" => Len(trCircles) = Len(trNodes)

\* A tree of four levels is drawn: three full ones and a last one that is
\* partial.
C27_Witness ==
    /\ trPc = "done"
    /\ Len(trLevels) = 4
    /\ Len(trLevels[3]) = 4
    /\ Len(trLevels[4]) = 1
    /\ Len(trEdges) = 7


\* The template cell with the label of the character, at the grid position
\* of the examined cell.
ownTemplateCell(e) ==
    {k \in 1..Len(tpCells) :
        /\ tpCells[k].label = e.char
        /\ tpCells[k].row = e.row
        /\ tpCells[k].col = e.col}

\* C28 as stated: on the detected grid and on the uniform grid alike, the
\* cell examined for a character is the grid cell at the template row and
\* column of that character, never the cell of another character or of an
\* empty template position.
C28_AsStated ==
    \A k \in 1..Len(examined) : ownTemplateCell(examined[k]) # {}

---------------------------------------------------------------------------
(* Claims about handleGenerate (under SpecGen) *)

\* C29 as stated: isGenerating is true as long as a handleGenerate call with
\* a non-empty text has started and not completed, overlapping calls
\* included; and when the last call to complete has rendered, its canvases
\* are the ones shown.
C29_AsStated ==
    /\ genTimers # <<>> => isGenerating
    /\ (genSettled # <<>> /\ genSettled[Len(genSettled)].ok) =>
          shownCanvases = <<genSettled[Len(genSettled)].call>>

---------------------------------------------------------------------------
(* Claims about handleAiGenerate (under SpecAi) *)

\* C30 as stated: isAiGenerating is true as long as a generation attempt is
\* in flight, the demo attempt begun after a failed real attempt or for a
\* missing API key included, and it is false once none is in flight.
C30_AsStated ==
    /\ aiInFlight # {} => isAiGenerating
    /\ (aiInFlight = {} /\ aiStarted > 0) => ~ isAiGenerating

===========================================================================
